---- MODULE Spec2Model ----
(***************************************************************************)
(* Model of the weekly_issue news pipeline: collection, keyword filter,     *)
(* similar-title removal, classification, summarization, and the service    *)
(* and controller layers that wrap a run.                                   *)
(*                                                                          *)
(* Text is modelled as a sequence of characters; a character is a one-      *)
(* element string, and a Hangul syllable is written by its romanised name.  *)
(***************************************************************************)
EXTENDS Integers, Sequences, FiniteSets, TLC

VARIABLES
    fop,                    \* pure-function harness: the function applied ("none" before)
    fin,                    \* its argument as passed
    fin_after,              \* the argument list as it is after the call returned
    fout,                   \* its return value
    entry,                  \* entry point of the run: "controller" or "service"
    companies_arg,          \* the company list the caller passed
    companies,              \* the company list the orchestrator works on
    pc,                     \* position of the run
    fetch_log,              \* the fetch outcomes so far, one per company fetched, in order
    news_results,           \* results of the fetch tasks, in task order
    all_news,
    keyword_filtered_news,
    deduped_news,
    classified_news,
    final_results,
    sum_index,              \* summarize_news: the items its loop has been through
    stages_run,             \* the stages that have executed, in order
    classifier_requests,    \* requests sent to the classifier endpoint
    summarizer_requests,    \* requests sent to the summarizer endpoint
    pipeline_result,        \* what process_news_pipeline gave its caller
    response,               \* the IssueResponse given to the user
    started,                \* fetch tasks that have begun to run
    classify_log,           \* how the run's classifier request ended
    summary_log,            \* what the summarizer answered, one entry per request
    script,                 \* the adapter answers fixed for the run, or NoScript: any answer
    clock,                  \* the day of the run, an index of Days
    first,                  \* the script, the day and the result of an earlier run
    conc,                   \* calls of process_news_pipeline in progress at the same time
    batch                   \* a call of the controller, directly or from a batch endpoint

vars == <<fop, fin, fin_after, fout, entry, companies_arg, companies, pc, fetch_log,
          news_results, all_news, keyword_filtered_news, deduped_news, classified_news,
          final_results, sum_index, stages_run, classifier_requests,
          summarizer_requests, pipeline_result, response, started, classify_log,
          summary_log, script, clock, first, conc, batch>>

-----------------------------------------------------------------------------
(* Characters and strings *)

\* Unicode code points of the characters the model uses.
Ord == [c \in {" ", "%", "<", ">", "A", "E", "G", "I", "S",
               "a", "e", "f", "g", "i", "n", "p", "s", "t",
               "dae", "beop", "eung", "jeok"} |->
        CASE c = " " -> 32 [] c = "%" -> 37 [] c = "<" -> 60 [] c = ">" -> 62
          [] c = "A" -> 65 [] c = "E" -> 69 [] c = "G" -> 71 [] c = "I" -> 73
          [] c = "S" -> 83 [] c = "a" -> 97 [] c = "e" -> 101 [] c = "f" -> 102
          [] c = "g" -> 103 [] c = "i" -> 105 [] c = "n" -> 110 [] c = "p" -> 112
          [] c = "s" -> 115 [] c = "t" -> 116
          [] c = "dae" -> 45824 [] c = "beop" -> 48277
          [] c = "eung" -> 51025 [] c = "jeok" -> 51201]

Chars == DOMAIN Ord

IsSpace(c) == c = " "

IsUpper(c) == Ord[c] >= 65 /\ Ord[c] <= 90

IsAscii(c) == Ord[c] < 128

\* \w of a unicode regular expression: letters and digits (no "_" in the alphabet)
IsWordChar(c) == ~ (c \in {" ", "%", "<", ">"})

\* str.lower() on one character
Lower(c) == IF IsUpper(c) THEN CHOOSE d \in Chars : Ord[d] = Ord[c] + 32 ELSE c

\* str.lower()
LowerStr(s) == [k \in 1..Len(s) |-> Lower(s[k])]

RECURSIVE LStrip(_)
LStrip(s) == IF s # <<>> /\ IsSpace(Head(s)) THEN LStrip(Tail(s)) ELSE s

RECURSIVE RStrip(_)
RStrip(s) == IF s # <<>> /\ IsSpace(s[Len(s)]) THEN RStrip(SubSeq(s, 1, Len(s) - 1)) ELSE s

\* str.strip()
Strip(s) == RStrip(LStrip(s))

\* the match of p in s that starts at position k
RECURSIVE MatchesAt(_, _, _)
MatchesAt(p, s, k) ==
    IF p = <<>> THEN TRUE
    ELSE IF k > Len(s) THEN FALSE
    ELSE IF Head(p) # s[k] THEN FALSE
    ELSE MatchesAt(Tail(p), s, k + 1)

\* p in s, scanning the start positions left to right
RECURSIVE FindFrom(_, _, _)
FindFrom(p, s, k) ==
    IF k + Len(p) - 1 > Len(s) THEN FALSE
    ELSE IF MatchesAt(p, s, k) THEN TRUE
    ELSE FindFrom(p, s, k + 1)

\* the python expression  p in s
StrIn(p, s) == FindFrom(p, s, 1)

\* dict.get(key, default)
Get(d, key, default) == IF key \in DOMAIN d THEN d[key] ELSE default

\* python slice s[:n]
Prefix(s, n) == SubSeq(s, 1, IF n < Len(s) THEN n ELSE Len(s))

\* " ".join(tokens)
RECURSIVE JoinSp(_)
JoinSp(tokens) ==
    IF tokens = <<>> THEN <<>>
    ELSE IF Len(tokens) = 1 THEN tokens[1]
    ELSE tokens[1] \o <<" ">> \o JoinSp(Tail(tokens))

\* str.split(): the maximal runs of non-space characters, in order
RECURSIVE SplitFrom(_, _, _)
SplitFrom(s, cur, acc) ==
    IF s = <<>> THEN (IF cur = <<>> THEN acc ELSE Append(acc, cur))
    ELSE IF IsSpace(Head(s))
         THEN SplitFrom(Tail(s), <<>>, IF cur = <<>> THEN acc ELSE Append(acc, cur))
         ELSE SplitFrom(Tail(s), Append(cur, Head(s)), acc)

Split(s) == SplitFrom(s, <<>>, <<>>)

\* s < t in python's string order (code point by code point)
RECURSIVE StrLess(_, _)
StrLess(s, t) ==
    IF t = <<>> THEN FALSE
    ELSE IF s = <<>> THEN TRUE
    ELSE IF Ord[Head(s)] < Ord[Head(t)] THEN TRUE
    ELSE IF Ord[Head(s)] > Ord[Head(t)] THEN FALSE
    ELSE StrLess(Tail(s), Tail(t))

\* sorted(set_of_strings)
RECURSIVE Sorted(_)
Sorted(S) ==
    IF S = {} THEN <<>>
    ELSE LET m == CHOOSE x \in S : \A y \in S \ {x} : StrLess(x, y)
         IN <<m>> \o Sorted(S \ {m})

Range(f) == {f[k] : k \in DOMAIN f}

-----------------------------------------------------------------------------
(* The similarity primitive: fuzz.token_set_ratio of fuzzywuzzy, on its     *)
(* pure-python path (difflib.SequenceMatcher).                              *)

\* the length of the common run of a from i and b from j
RECURSIVE CommonLen(_, _, _, _)
CommonLen(a, b, i, j) ==
    IF i > Len(a) \/ j > Len(b) THEN 0
    ELSE IF a[i] # b[j] THEN 0
    ELSE 1 + CommonLen(a, b, i + 1, j + 1)

\* SequenceMatcher.find_longest_match: the longest common block, of those the
\* one starting earliest in a, of those the one starting earliest in b
LongestMatch(a, b) ==
    LET cands == (1..Len(a)) \X (1..Len(b))
        k(p) == CommonLen(a, b, p[1], p[2])
        best == CHOOSE p \in cands : \A q \in cands :
                    \/ k(p) > k(q)
                    \/ k(p) = k(q) /\ p[1] < q[1]
                    \/ k(p) = k(q) /\ p[1] = q[1] /\ p[2] <= q[2]
    IN [i |-> best[1], j |-> best[2], size |-> k(best)]

\* the sum of the sizes of SequenceMatcher.get_matching_blocks
RECURSIVE MatchingCount(_, _)
MatchingCount(a, b) ==
    IF a = <<>> \/ b = <<>> THEN 0
    ELSE LET m == LongestMatch(a, b)
         IN IF m.size = 0 THEN 0
            ELSE m.size
                 + MatchingCount(SubSeq(a, 1, m.i - 1), SubSeq(b, 1, m.j - 1))
                 + MatchingCount(SubSeq(a, m.i + m.size, Len(a)),
                                 SubSeq(b, m.j + m.size, Len(b)))

\* utils.intr(100 * 2.0 * M / T): round to nearest, ties to even
RoundRatio(M, T) ==
    LET q == (200 * M) \div T
        r == (200 * M) % T
    IN IF 2 * r < T THEN q
       ELSE IF 2 * r > T THEN q + 1
       ELSE IF q % 2 = 0 THEN q ELSE q + 1

\* fuzz.ratio
ratio(s1, s2) ==
    IF s1 = s2 THEN 100
    ELSE IF s1 = <<>> \/ s2 = <<>> THEN 0
    ELSE RoundRatio(MatchingCount(s1, s2), Len(s1) + Len(s2))

\* utils.full_process(s, force_ascii=True)
full_process(s) ==
    LET ascii == SelectSeq(s, IsAscii)
        spaced == [k \in 1..Len(ascii) |-> IF IsWordChar(ascii[k]) THEN ascii[k] ELSE " "]
    IN Strip(LowerStr(spaced))

Max2(a, b) == IF a >= b THEN a ELSE b

\* fuzz.token_set_ratio(s1, s2)
token_set_ratio(s1, s2) ==
    LET p1 == full_process(s1)
        p2 == full_process(s2)
        tokens1 == Range(Split(p1))
        tokens2 == Range(Split(p2))
        sorted_sect == JoinSp(Sorted(tokens1 \cap tokens2))
        sorted_1to2 == JoinSp(Sorted(tokens1 \ tokens2))
        sorted_2to1 == JoinSp(Sorted(tokens2 \ tokens1))
        combined_1to2 == Strip(sorted_sect \o <<" ">> \o sorted_1to2)
        combined_2to1 == Strip(sorted_sect \o <<" ">> \o sorted_2to1)
    IN IF p1 = <<>> \/ p2 = <<>> THEN 0
       ELSE Max2(ratio(sorted_sect, combined_1to2),
                 Max2(ratio(sorted_sect, combined_2to1),
                      ratio(combined_1to2, combined_2to1)))

-----------------------------------------------------------------------------
(* KeywordFilterService *)

\* KeywordFilterService.important_keywords: these entries of the list, in the
\* list's order ("beop jeok dae eung" precedes its prefix "beop jeok")
important_keywords ==
    << <<"beop", "jeok", " ", "dae", "eung">>,
       <<"beop", "jeok">>,
       <<"E", "S", "G">>,
       <<"%">>,
       <<"a", "i">>,
       <<"i", "p">>,
       <<"n", "f", "t">> >>

\* the test of one keyword against the lower-cased title, without keyword.lower()
KeywordMatchesCaseSensitive(keyword, title) == StrIn(keyword, title)

\* keyword.lower() in title
KeywordMatches(keyword, title) == StrIn(LowerStr(keyword), title)

\* the loop over self.important_keywords for one title
RECURSIVE KeywordLoop(_, _, _)
KeywordLoop(keywords, title, matched_keywords) ==
    IF keywords = <<>> THEN matched_keywords
    ELSE KeywordLoop(Tail(keywords), title,
                     IF KeywordMatches(Head(keywords), title)
                     THEN Append(matched_keywords, Head(keywords))
                     ELSE matched_keywords)

\* the body of the loop over news_list: the record as the loop leaves it
\* (news["matched_keywords"] is assigned on the record itself when a keyword matched)
FilterOne(news) ==
    LET title == LowerStr(Get(news, "title", <<>>))
        matched_keywords == KeywordLoop(important_keywords, title, <<>>)
        has_keyword == matched_keywords # <<>>
    IN [has_keyword |-> has_keyword,
        news |-> IF has_keyword
                 THEN [matched_keywords |-> matched_keywords] @@ news
                 ELSE news]

RECURSIVE FilterLoop(_, _)
FilterLoop(news_list, filtered_news) ==
    IF news_list = <<>> THEN filtered_news
    ELSE LET r == FilterOne(Head(news_list))
         IN FilterLoop(Tail(news_list),
                       IF r.has_keyword THEN Append(filtered_news, r.news)
                       ELSE filtered_news)

\* KeywordFilterService.filter_by_keywords: the list it returns
filter_by_keywords(news_list) == FilterLoop(news_list, <<>>)

\* the argument list after filter_by_keywords returned: the records that
\* passed are the caller's own records, now carrying matched_keywords
filter_by_keywords_arg_after(news_list) ==
    [k \in 1..Len(news_list) |-> FilterOne(news_list[k]).news]

-----------------------------------------------------------------------------
(* NewsPipelineService.remove_similar_titles *)

similarity_threshold == 85

\* the same loop with the comparison against the last kept title only
IsSimilarToLast(current_title, filtered_news) ==
    /\ filtered_news # <<>>
    /\ token_set_ratio(current_title,
                       Strip(Get(filtered_news[Len(filtered_news)], "title", <<>>)))
           >= similarity_threshold

\* the inner loop over filtered_news, which stops at the first similar title
IsSimilar(current_title, filtered_news) ==
    \E k \in 1..Len(filtered_news) :
        token_set_ratio(current_title, Strip(Get(filtered_news[k], "title", <<>>)))
            >= similarity_threshold

\* the same scan with the latest of two similar items winning: the candidate
\* takes the place of the kept items it is similar to
RECURSIVE DedupLoopLatestWins(_, _)
DedupLoopLatestWins(news_list, filtered_news) ==
    IF news_list = <<>> THEN filtered_news
    ELSE LET current_news == Head(news_list)
             current_title == Strip(Get(current_news, "title", <<>>))
         IN IF current_title = <<>>
            THEN DedupLoopLatestWins(Tail(news_list), filtered_news)
            ELSE IF IsSimilar(current_title, filtered_news)
            THEN DedupLoopLatestWins(
                     Tail(news_list),
                     [k \in 1..Len(filtered_news) |->
                         IF token_set_ratio(current_title,
                                            Strip(Get(filtered_news[k], "title", <<>>)))
                                >= similarity_threshold
                         THEN current_news ELSE filtered_news[k]])
            ELSE DedupLoopLatestWins(Tail(news_list), Append(filtered_news, current_news))

RECURSIVE DedupLoop(_, _)
DedupLoop(news_list, filtered_news) ==
    IF news_list = <<>> THEN filtered_news
    ELSE LET current_news == Head(news_list)
             current_title == Strip(Get(current_news, "title", <<>>))
         IN IF current_title = <<>>
            THEN DedupLoop(Tail(news_list), filtered_news)
            ELSE IF IsSimilar(current_title, filtered_news)
            THEN DedupLoop(Tail(news_list), filtered_news)
            ELSE DedupLoop(Tail(news_list), Append(filtered_news, current_news))

remove_similar_titles(news_list) ==
    IF news_list = <<>> THEN news_list ELSE DedupLoop(news_list, <<>>)

-----------------------------------------------------------------------------
(* The state before any run, and the values a run starts from *)

NoCompanies == [absent |-> TRUE, names |-> <<>>]

NoResult == [status |-> "none"]

NoResponse == [status |-> "none"]

NoAnswer == "none"

NoScript == [any |-> TRUE]

NoRunLocals ==
    /\ entry = "none"
    /\ companies_arg = NoCompanies
    /\ companies = NoCompanies
    /\ pc = "Idle"
    /\ fetch_log = <<>>
    /\ news_results = <<>>
    /\ all_news = <<>>
    /\ keyword_filtered_news = <<>>
    /\ deduped_news = <<>>
    /\ classified_news = <<>>
    /\ final_results = <<>>
    /\ sum_index = 0
    /\ stages_run = <<>>
    /\ classifier_requests = 0
    /\ summarizer_requests = 0
    /\ pipeline_result = NoResult
    /\ response = NoResponse
    /\ started = 0
    /\ classify_log = NoAnswer
    /\ summary_log = <<>>

\* no calls in progress at the same time
NoConc == [frames |-> <<>>, scripts |-> <<>>]

\* no call of the controller yet
NoBatch ==
    [endpoint |-> "none", pc |-> "Idle", db_session |-> FALSE, starts |-> 0,
     finishes |-> 0, service_response |-> NoResponse, response |-> NoResponse,
     save_attempted |-> FALSE, save_ok |-> FALSE, stored |-> <<>>, projections |-> 0,
     projection_data |-> <<>>, local_updated |-> 0, reply |-> "none"]

NoRun ==
    /\ NoRunLocals
    /\ script = NoScript
    /\ clock = 1
    /\ first = NoResult
    /\ conc = NoConc
    /\ batch = NoBatch

runVars == <<entry, companies_arg, companies, pc, fetch_log, news_results, all_news,
             keyword_filtered_news, deduped_news, classified_news, final_results,
             sum_index, stages_run, classifier_requests, summarizer_requests, pipeline_result,
             response, started, classify_log, summary_log, script, clock, first, conc,
             batch>>

fnVars == <<fop, fin, fin_after, fout>>

rerunVars == <<script, clock, first, conc, batch>>

logVars == <<started, classify_log, summary_log, rerunVars>>

\* the sequences over S of length at most n
SeqsUpTo(S, n) == UNION {[1..k -> S] : k \in 0..n}

\* the j-th smallest element of a set of numbers
Nth(S, j) == CHOOSE x \in S : Cardinality({y \in S : y < x}) = j - 1

\* the subsequence of s at the positions K, in order
SubseqAt(s, K) == [j \in 1..Cardinality(K) |-> s[Nth(K, j)]]

\* a news record as the source adapter builds it
NewsOf(company, title, link) ==
    [company |-> company, title |-> title, description |-> <<"d">>,
     link |-> link, pubDate |-> <<>>]

-----------------------------------------------------------------------------
(* filter_by_keywords applied to every short list of records *)

MaxFilterLen == 2

FilterTitles ==
    { <<>>,
      <<"A", "I", " ", "i", "p">>,
      <<"e", "s", "g">>,
      <<"beop", "jeok", " ", "dae", "eung">>,
      <<"beop", "jeok">>,
      <<"a", " ", "i">>,
      <<"n", "f", "t", "%">>,
      <<"t", "i", "p">>,
      <<"p", "a", "i", "n", "t">>,
      <<"E", "S">> }

FilterInputs == SeqsUpTo({NewsOf(<<"K">>, t, "u1") : t \in FilterTitles}, MaxFilterLen)

InitFilter ==
    /\ NoRun
    /\ fop = "none"
    /\ fin \in FilterInputs
    /\ fin_after = fin
    /\ fout = <<>>

ApplyFilter ==
    /\ fop = "none"
    /\ fop' = "filter_by_keywords"
    /\ fout' = filter_by_keywords(fin)
    /\ fin_after' = filter_by_keywords_arg_after(fin)
    /\ UNCHANGED <<fin, runVars>>

SpecFilter == InitFilter /\ [][ApplyFilter]_vars

\* the lexicon entry k occurs in the lower-cased title, both taken lower-cased
LexiconHit(k, title) ==
    LET kw == LowerStr(important_keywords[k])
        t == LowerStr(title)
    IN \E at \in 1..(Len(t) - Len(kw) + 1) : SubSeq(t, at, at + Len(kw) - 1) = kw

LexiconHits(title) == {k \in 1..Len(important_keywords) : LexiconHit(k, title)}

\* C9: filter_by_keywords retains an item if and only if its lower-cased title
\* contains at least one lower-cased lexicon entry as a substring; a retained item
\* carries matched_keywords equal to all the matching lexicon entries in lexicon
\* order (hence non-empty) and otherwise the fields of the input item; the
\* output lists the retained items in input order.
C9_FilterRetainsExactlyMatches ==
    fop = "filter_by_keywords" =>
        LET kept == {i \in 1..Len(fin) : LexiconHits(fin[i].title) # {}}
        IN /\ Len(fout) = Cardinality(kept)
           /\ \A j \in 1..Len(fout) :
                LET src == fin[Nth(kept, j)]
                    hits == LexiconHits(src.title)
                    mk == fout[j].matched_keywords
                IN /\ DOMAIN fout[j] = DOMAIN src \cup {"matched_keywords"}
                   /\ \A f \in DOMAIN src : fout[j][f] = src[f]
                   /\ mk # <<>>
                   /\ Len(mk) = Cardinality(hits)
                   /\ \A m \in 1..Len(mk) : mk[m] = important_keywords[Nth(hits, m)]

\* a list of which one item is dropped and a later one is kept with two keywords,
\* one of them matched through a difference of case
C9_Witness ==
    /\ fop = "filter_by_keywords"
    /\ Len(fin) = 2
    /\ Len(fout) = 1
    /\ fin[1].title = <<"a", " ", "i">>
    /\ fout[1].title = <<"A", "I", " ", "i", "p">>
    /\ fout[1].matched_keywords = << <<"a", "i">>, <<"i", "p">> >>

-----------------------------------------------------------------------------
(* remove_similar_titles applied to every short list of records *)

MaxDedupLen == 3

DedupTitles ==
    { <<"a", "i", " ", "i", "p">>,
      <<"i", "p", " ", "A", "I">>,
      <<"a", "i">>,
      <<"a", "i", " ", "n", "f", "t">>,
      <<"n", "f", "t", " ", "t", "i", "p", " ", "a", "i">>,
      <<"n", "f", "t", " ", "t", "i", "p", " ", "i", "p">>,
      <<" ">>,
      <<"beop", "jeok">> }

DedupInputs ==
    SeqsUpTo({NewsOf(<<"K">>, t, "u1") : t \in DedupTitles}
                 \cup {NewsOf(<<"N">>, <<"a", "i">>, "u2")}, MaxDedupLen)

InitDedup ==
    /\ NoRun
    /\ fop = "none"
    /\ fin \in DedupInputs
    /\ fin_after = fin
    /\ fout = <<>>

ApplyDedup ==
    /\ fop = "none"
    /\ fop' = "remove_similar_titles"
    /\ fout' = remove_similar_titles(fin)
    /\ fin_after' = fin
    /\ UNCHANGED <<fin, runVars>>

SpecDedup == InitDedup /\ [][ApplyDedup]_vars

Blank(news) == \A k \in 1..Len(news.title) : news.title[k] = " "

Similar(a, b) == token_set_ratio(a.title, b.title) >= 85

\* the original statement of C10: a candidate is dropped exactly when it is
\* similar to an already-kept item, and the first input item always survives
C10_Original ==
    fop = "remove_similar_titles" =>
        /\ \E K \in SUBSET (1..Len(fin)) :
             /\ \A i \in 1..Len(fin) :
                  i \in K <=> ~ \E j \in K : j < i /\ Similar(fin[i], fin[j])
             /\ fout = SubseqAt(fin, K)
        /\ fin # <<>> => fout # <<>> /\ fout[1] = fin[1]

\* C10 (amended): remove_similar_titles is greedy and first-seen-wins over the
\* items whose title is not blank: scanning the input in order, a candidate is
\* dropped when its title is empty or only spaces, or when its token-set
\* similarity to some already-kept title is >= 85, and is appended to the kept
\* list otherwise; so the first item with a non-blank title always survives, and
\* for non-blank titles A, B, C with sim(A,B) >= 85 and C below 85 against both,
\* every input order in which A precedes B yields exactly A and C in input
\* order. Empty input yields empty output.
C10_GreedyFirstSeenWins ==
    fop = "remove_similar_titles" =>
        LET n == Len(fin)
            nonblank == {i \in 1..n : ~ Blank(fin[i])}
        IN /\ \E K \in SUBSET (1..n) :
                /\ \A i \in 1..n :
                     i \in K <=> /\ i \in nonblank
                                 /\ ~ \E j \in K : j < i /\ Similar(fin[i], fin[j])
                /\ fout = SubseqAt(fin, K)
           /\ nonblank # {} => fout # <<>> /\ fout[1] = fin[Nth(nonblank, 1)]
           /\ n = 0 => fout = <<>>
           /\ \A a, b, c \in 1..n :
                (/\ n = 3 /\ a < b /\ c # a /\ c # b
                 /\ nonblank = {a, b, c}
                 /\ Similar(fin[b], fin[a])
                 /\ ~ Similar(fin[c], fin[a]) /\ ~ Similar(fin[a], fin[c])
                 /\ ~ Similar(fin[c], fin[b]) /\ ~ Similar(fin[b], fin[c]))
                => fout = SubseqAt(fin, {a, c})

\* three non-blank titles, the third similar to the first and not to the second,
\* which is similar to neither: the first and the second are kept
C10_Witness ==
    /\ fop = "remove_similar_titles"
    /\ Len(fin) = 3
    /\ ~ Blank(fin[1]) /\ ~ Blank(fin[2]) /\ ~ Blank(fin[3])
    /\ Similar(fin[3], fin[1])
    /\ ~ Similar(fin[2], fin[1])
    /\ ~ Similar(fin[3], fin[2])
    /\ fin[1] # fin[3]
    /\ fout = <<fin[1], fin[2]>>

-----------------------------------------------------------------------------
(* NaverNewsService *)

\* NaverNewsService._clean_html_tags: re.sub('<.*?>', '', text)
RECURSIVE clean_html_tags(_)
clean_html_tags(text) ==
    IF text = <<>> THEN <<>>
    ELSE IF Head(text) = "<" /\ \E k \in 2..Len(text) : text[k] = ">"
         THEN LET close == CHOOSE k \in 2..Len(text) :
                              /\ text[k] = ">"
                              /\ \A m \in 2..(k - 1) : text[m] # ">"
              IN clean_html_tags(SubSeq(text, close + 1, Len(text)))
         ELSE <<Head(text)>> \o clean_html_tags(Tail(text))

\* the loop over data["items"]: a title or description that is not a string
\* makes re.sub raise TypeError in the middle of the loop
RECURSIVE ProcessItems(_, _, _)
ProcessItems(news_items, company, processed_news) ==
    IF news_items = <<>> THEN [exc |-> "none", value |-> processed_news]
    ELSE LET item == Head(news_items)
         IN IF ~ item.wellformed
            THEN [exc |-> "Exception", value |-> processed_news]
            ELSE ProcessItems(Tail(news_items), company,
                     Append(processed_news,
                            [company |-> company,
                             title |-> clean_html_tags(item.title),
                             description |-> clean_html_tags(item.description),
                             link |-> item.link,
                             pubDate |-> item.pubDate]))

\* the try block of fetch_news_for_company: the exception it ends with, if any
FetchTry(company, resp) ==
    CASE resp.kind \in {"connection_error", "timeout"} ->
             [exc |-> "RequestException", value |-> <<>>]   \* requests.get raises
      [] resp.kind = "http_401" ->
             [exc |-> "Exception", value |-> <<>>]          \* raise Exception(...)
      [] resp.kind = "http_500" ->
             [exc |-> "RequestException", value |-> <<>>]   \* raise_for_status()
      [] resp.kind = "not_json" ->
             [exc |-> "RequestException", value |-> <<>>]   \* response.json()
      [] resp.kind = "ok" -> ProcessItems(resp.items, company, <<>>)

\* fetch_news_for_company with the handler "except Exception" missing
fetch_news_for_company_unhandled(company, resp) ==
    LET r == FetchTry(company, resp)
    IN IF r.exc = "none" THEN [raised |-> FALSE, value |-> r.value]
       ELSE IF r.exc = "RequestException" THEN [raised |-> FALSE, value |-> <<>>]
       ELSE [raised |-> TRUE, value |-> <<>>]

\* NaverNewsService.fetch_news_for_company: what the task resolves to
fetch_news_for_company(company, resp) ==
    LET r == FetchTry(company, resp)
    IN IF r.exc = "none" THEN [raised |-> FALSE, value |-> r.value]
       ELSE IF r.exc = "RequestException" THEN [raised |-> FALSE, value |-> <<>>]
       ELSE [raised |-> FALSE, value |-> <<>>]

-----------------------------------------------------------------------------
(* ClassifierService; a confidence is written in hundredths *)

FallbackClassification == [label |-> "important", confidence |-> 70]

\* ClassifierService._create_fallback_results, and the same loop in the
\* non-200 branch of classify_news
create_fallback_results(news_list) ==
    [k \in 1..Len(news_list) |->
        [classification |-> FallbackClassification] @@ news_list[k]]

\* the pairing loop admitting only a confidence above 0.6
RECURSIVE ClassifyLoopAbove(_, _, _, _)
ClassifyLoopAbove(i, news_list, batch_results, classified) ==
    IF i > Len(news_list) THEN [exc |-> FALSE, value |-> classified]
    ELSE IF i > Len(batch_results)
         THEN ClassifyLoopAbove(i + 1, news_list, batch_results, classified)
    ELSE LET prediction == batch_results[i]
         IN IF ~ prediction.wellformed THEN [exc |-> TRUE, value |-> classified]
            ELSE ClassifyLoopAbove(i + 1, news_list, batch_results,
                     IF prediction.confidence > 60
                     THEN Append(classified,
                                 [classification |-> [label |-> prediction.label,
                                                      confidence |-> prediction.confidence]]
                                     @@ news_list[i])
                     ELSE classified)

\* the loop that pairs batch_results with news_list by position; an entry that
\* is not an object, or whose confidence is not a number, raises
RECURSIVE ClassifyLoop(_, _, _, _)
ClassifyLoop(i, news_list, batch_results, classified) ==
    IF i > Len(news_list) THEN [exc |-> FALSE, value |-> classified]
    ELSE IF i > Len(batch_results)
         THEN ClassifyLoop(i + 1, news_list, batch_results, classified)
    ELSE LET prediction == batch_results[i]
         IN IF ~ prediction.wellformed THEN [exc |-> TRUE, value |-> classified]
            ELSE LET classified_item ==
                         [classification |-> [label |-> prediction.label,
                                              confidence |-> prediction.confidence]]
                             @@ news_list[i]
                 IN ClassifyLoop(i + 1, news_list, batch_results,
                                 IF prediction.confidence >= 60
                                 THEN Append(classified, classified_item)
                                 ELSE classified)

\* classify_news with the fallback items added to the list the loop had begun
classify_news_fallback_appended(news_list, resp) ==
    IF news_list = <<>> THEN <<>>
    ELSE CASE resp.kind = "ok" ->
                  LET r == ClassifyLoop(1, news_list, resp.result, <<>>)
                  IN IF r.exc THEN r.value \o create_fallback_results(news_list)
                     ELSE r.value
           [] resp.kind = "http_500" -> create_fallback_results(news_list)
           [] resp.kind \in {"connect_error", "timeout", "network_error", "not_json"} ->
                  create_fallback_results(news_list)

\* classify_news returning nothing when the classifier cannot be reached
classify_news_fail_closed(news_list, resp) ==
    IF news_list = <<>> THEN <<>>
    ELSE CASE resp.kind = "ok" ->
                  LET r == ClassifyLoop(1, news_list, resp.result, <<>>)
                  IN IF r.exc THEN create_fallback_results(news_list) ELSE r.value
           [] resp.kind = "http_500" -> create_fallback_results(news_list)
           [] resp.kind \in {"connect_error", "timeout", "network_error"} -> <<>>
           [] resp.kind = "not_json" -> create_fallback_results(news_list)

\* ClassifierService.classify_news for the given response to its request
classify_news(news_list, resp) ==
    IF news_list = <<>> THEN <<>>
    ELSE CASE resp.kind = "ok" ->
                  LET r == ClassifyLoop(1, news_list, resp.result, <<>>)
                  IN IF r.exc THEN create_fallback_results(news_list) ELSE r.value
           [] resp.kind = "http_500" -> create_fallback_results(news_list)
           [] resp.kind \in {"connect_error", "timeout", "network_error", "not_json"} ->
                  create_fallback_results(news_list)

-----------------------------------------------------------------------------
(* SummaryService *)

\* " gwanryeon nyuseu: "
RelatedNews == <<" ", "gwan", "ryeon", " ", "nyu", "seu", ":", " ">>

\* " gwanryeon nyuseuga balpyodoeeossseupnida."
RelatedNewsAnnounced ==
    <<" ", "gwan", "ryeon", " ", "nyu", "seu", "ga", " ",
      "bal", "pyo", "doe", "eoss", "seup", "ni", "da", ".">>

\* SummaryService._generate_fallback_summary
generate_fallback_summary(news) ==
    LET title == Get(news, "title", <<>>)
        description == Get(news, "description", <<>>)
        company == Get(news, "company", <<>>)
    IN IF title # <<>> /\ description # <<>>
       THEN LET base == company \o RelatedNews \o Prefix(title, 30)
                remaining_chars == 100 - Len(base) - 5
                base_summary ==
                    IF Len(base) < 80 /\ remaining_chars > 10
                    THEN base \o <<" ", "-", " ">> \o Prefix(description, remaining_chars)
                              \o <<".", ".", ".">>
                    ELSE base
            IN Prefix(base_summary, 100)
       ELSE IF title # <<>>
       THEN company \o RelatedNews \o Prefix(title, 70)
       ELSE company \o RelatedNewsAnnounced

\* two consecutive days
Days == << <<"2", "0", "2", "6", "1", "1", "0", "3">>,
           <<"2", "0", "2", "6", "1", "1", "0", "4">> >>

\* datetime.now().strftime("%Y%m%d") at the time of the run
Today == Days[clock]

Digits == {"0", "1", "2", "3", "4", "5", "6", "7", "8", "9"}

MonthNumber ==
    [m \in {<<"J", "a", "n">>, <<"D", "e", "c">>} |->
        IF m = <<"J", "a", "n">> THEN <<"0", "1">> ELSE <<"1", "2">>]

\* pub_date.split('+')[0]
RECURSIVE BeforePlus(_)
BeforePlus(s) ==
    IF s = <<>> THEN <<>>
    ELSE IF Head(s) = "+" THEN <<>>
    ELSE <<Head(s)>> \o BeforePlus(Tail(s))

\* a timestamp as the search API writes it
ValidPubDate ==
    <<"M", "o", "n", ",", " ", "1", "8", " ", "D", "e", "c", " ", "2", "0", "2", "3",
      " ", "1", "4", ":", "3", "0", ":", "0", "0", " ", "+", "0", "9", "0", "0">>

\* _format_published_date dating every item with a timestamp by the day of the run
format_published_date_today(pub_date) ==
    IF pub_date = <<>> THEN <<>> ELSE Today

\* _format_published_date giving no date for a timestamp that does not parse
format_published_date_or_blank(pub_date) ==
    IF pub_date = ValidPubDate THEN <<"2", "0", "2", "3", "1", "2", "1", "8">> ELSE <<>>

\* SummaryService._format_published_date, for the dates of the form
\* "Mon, 18 Dec 2023 14:30:00 +0900" with a two-digit day; any other
\* non-empty text fails to parse
format_published_date(pub_date) ==
    IF pub_date = <<>> THEN <<>>
    ELSE LET t == Strip(BeforePlus(pub_date))
             parses == /\ Len(t) = 25
                       /\ t[4] = "," /\ t[5] = " " /\ t[8] = " " /\ t[12] = " "
                       /\ t[17] = " " /\ t[20] = ":" /\ t[23] = ":"
                       /\ SubSeq(t, 9, 11) \in DOMAIN MonthNumber
                       /\ \A k \in {6, 7, 13, 14, 15, 16, 18, 19, 21, 22, 24, 25} :
                              t[k] \in Digits
         IN IF parses
            THEN SubSeq(t, 13, 16) \o MonthNumber[SubSeq(t, 9, 11)] \o SubSeq(t, 6, 7)
            ELSE Today

\* SummaryService._create_fallback_result
create_fallback_result(news, id) ==
    [id |-> id,
     corp |-> Get(news, "company", "None"),
     summary |-> generate_fallback_summary(news),
     original_title |-> Get(news, "title", "None"),
     confidence |-> Get(Get(news, "classification", [none |-> 0]), "confidence", 0),
     matched_keywords |-> Get(news, "matched_keywords", <<>>),
     news_url |-> Get(news, "link", ""),
     published_date |-> format_published_date(Get(news, "pubDate", <<>>)),
     category |-> Get(news, "category", "general"),
     sentiment |-> "neutral"]

\* the loop body taking every text of a 200 answer that is not empty
SummarizeOneUnstripped(news, resp, id) ==
    CASE resp.kind = "ok" ->
             LET summary_text == Get(resp, "summary", <<>>)
                 blank == summary_text = <<>>
             IN [id |-> id,
                 corp |-> Get(news, "company", "None"),
                 summary |-> IF blank THEN generate_fallback_summary(news)
                             ELSE summary_text,
                 original_title |-> Get(news, "title", "None"),
                 confidence |-> Get(Get(news, "classification", [none |-> 0]),
                                    "confidence", 0),
                 matched_keywords |-> Get(news, "matched_keywords", <<>>),
                 news_url |-> Get(news, "link", ""),
                 published_date |-> format_published_date(Get(news, "pubDate", <<>>)),
                 category |-> Get(news, "category", "general"),
                 sentiment |-> "neutral",
                 summary_type |-> IF blank THEN "fallback_empty_response"
                                  ELSE "ai_generated"]
      [] resp.kind = "http_500" ->
             [summary_type |-> "fallback_api_error_500"] @@ create_fallback_result(news, id)
      [] resp.kind \in {"network_error", "timeout"} ->
             [summary_type |-> "fallback_network_error"] @@ create_fallback_result(news, id)
      [] resp.kind = "not_json" ->
             [summary_type |-> "fallback_unknown_error"] @@ create_fallback_result(news, id)

\* the body of the loop of summarize_news for one item and the outcome of its
\* request: the result appended to summarized_results
SummarizeOne(news, resp, id) ==
    CASE resp.kind = "ok" ->
             LET summary_text == Get(resp, "summary", <<>>)
                 blank == summary_text = <<>> \/ Strip(summary_text) = <<>>
             IN [id |-> id,
                 corp |-> Get(news, "company", "None"),
                 summary |-> IF blank THEN generate_fallback_summary(news)
                             ELSE summary_text,
                 original_title |-> Get(news, "title", "None"),
                 confidence |-> Get(Get(news, "classification", [none |-> 0]),
                                    "confidence", 0),
                 matched_keywords |-> Get(news, "matched_keywords", <<>>),
                 news_url |-> Get(news, "link", ""),
                 published_date |-> format_published_date(Get(news, "pubDate", <<>>)),
                 category |-> Get(news, "category", "general"),
                 sentiment |-> "neutral",
                 summary_type |-> IF blank THEN "fallback_empty_response"
                                  ELSE "ai_generated"]
      [] resp.kind = "http_500" ->
             [summary_type |-> "fallback_api_error_500"] @@ create_fallback_result(news, id)
      [] resp.kind \in {"network_error", "timeout"} ->
             [summary_type |-> "fallback_network_error"] @@ create_fallback_result(news, id)
      [] resp.kind = "not_json" ->
             [summary_type |-> "fallback_unknown_error"] @@ create_fallback_result(news, id)

-----------------------------------------------------------------------------
(* The inputs of a run *)

\* app.config.companies.COMPANY_NAMES, the registry of the companies
COMPANY_NAMES == << <<"K">>, <<"N">> >>

MaxItems == 1

\* the company lists a caller passes: none, or the first k names of the registry
CompanyArgs ==
    {NoCompanies} \cup
    {[absent |-> FALSE, names |-> SubSeq(COMPANY_NAMES, 1, k)] :
        k \in 0..Len(COMPANY_NAMES)}

\* entries of the "items" array of the search API
ProviderItems ==
    { [wellformed |-> TRUE, title |-> <<"<", "b", ">", "A", "I", "<", "/", "b", ">", " ", "i", "p">>,
       description |-> <<"d">>, link |-> "u1", pubDate |-> ValidPubDate],
      [wellformed |-> TRUE, title |-> <<"i", "p", " ", "a", "i">>,
       description |-> <<>>, link |-> "u2", pubDate |-> <<>>],
      [wellformed |-> TRUE, title |-> <<"n", "f", "t">>,
       description |-> <<"<", "i", ">", "d">>, link |-> "u3", pubDate |-> <<"x">>],
      [wellformed |-> TRUE, title |-> <<"a", " ", "i">>,
       description |-> <<"d">>, link |-> "u4", pubDate |-> ValidPubDate],
      [wellformed |-> FALSE, title |-> <<>>,
       description |-> <<>>, link |-> "u5", pubDate |-> <<>>] }

\* what the search API answers to one request
FetchResponses ==
    {[kind |-> k, items |-> <<>>] :
        k \in {"http_401", "http_500", "connection_error", "timeout", "not_json"}}
    \cup {[kind |-> "ok", items |-> i] : i \in SeqsUpTo(ProviderItems, MaxItems)}

\* entries of the "result" array of the classifier
ClassifierEntries ==
    { [wellformed |-> TRUE, label |-> "important", confidence |-> 60],
      [wellformed |-> TRUE, label |-> "important", confidence |-> 50],
      [wellformed |-> TRUE, label |-> "normal", confidence |-> 90],
      [wellformed |-> FALSE, label |-> "important", confidence |-> 0] }

\* what the classifier answers to a batch of n titles
ClassifierResponses(n) ==
    {[kind |-> k, result |-> <<>>] :
        k \in {"http_500", "connect_error", "timeout", "network_error", "not_json"}}
    \cup {[kind |-> "ok", result |-> r] : r \in SeqsUpTo(ClassifierEntries, n)}

ModelSummary == <<"s", "u", "m">>

\* what the summarizer answers to one request
SummarizerResponses ==
    {[kind |-> k, summary |-> <<>>] : k \in {"http_500", "network_error", "not_json"}}
    \cup {[kind |-> "ok", summary |-> t] : t \in {ModelSummary, <<>>}}

-----------------------------------------------------------------------------
(* IssueController, IssueService and NewsPipelineService.process_news_pipeline *)

Truthy(arg) == ~ arg.absent /\ arg.names # <<>>

\* the controller substituting the registry for an absent list only
ControllerCompaniesAbsentOnly(arg) ==
    IF arg.absent THEN [absent |-> FALSE, names |-> COMPANY_NAMES] ELSE arg

\* IssueController.process_news_pipeline: "if not companies: companies = COMPANY_NAMES"
ControllerCompanies(arg) ==
    IF ~ Truthy(arg) THEN [absent |-> FALSE, names |-> COMPANY_NAMES] ELSE arg

StageOrder == <<"Collecting", "Filtering", "Deduplicating", "Classifying", "Summarizing">>

StageAfter(stage) ==
    CASE stage = "Collecting" -> "Filtering"
      [] stage = "Filtering" -> "Deduplicating"
      [] stage = "Deduplicating" -> "Classifying"
      [] stage = "Classifying" -> "Summarizing"

\* the orchestrator without the check "if not classified_news"
AfterStageNoClassifiedCheck(stage, output) ==
    IF output = <<>> /\ stage # "Classifying" THEN "EmptyAtStage" ELSE StageAfter(stage)

\* the checks "if not all_news", "if not keyword_filtered_news", "if not
\* deduped_news", "if not classified_news": where the run goes after a stage
AfterStage(stage, output) ==
    IF output = <<>> THEN "EmptyAtStage" ELSE StageAfter(stage)

\* every early return written as the first one, with zero counts throughout
EmptyResultAllZero(stage, collected, filtered, deduped) ==
    [status |-> "success", message |-> "no news collected",
     total_collected |-> 0, after_keyword_filter |-> 0,
     after_classification |-> 0, final_summaries |-> 0, results |-> <<>>]

\* the dictionary returned when a stage's output is empty
EmptyResult(stage, collected, filtered, deduped) ==
    CASE stage = "Collecting" ->
             [status |-> "success", message |-> "no news collected",
              total_collected |-> 0, after_keyword_filter |-> 0,
              after_classification |-> 0, final_summaries |-> 0, results |-> <<>>]
      [] stage = "Filtering" ->
             [status |-> "success", message |-> "no news passed the keyword filter",
              total_collected |-> Len(collected), after_keyword_filter |-> 0,
              after_deduplication |-> 0, after_classification |-> 0,
              final_summaries |-> 0, results |-> <<>>]
      [] stage = "Deduplicating" ->
             [status |-> "success", message |-> "no news left after removing similar titles",
              total_collected |-> Len(collected),
              after_keyword_filter |-> Len(filtered),
              after_deduplication |-> 0, after_classification |-> 0,
              final_summaries |-> 0, results |-> <<>>]
      [] stage = "Classifying" ->
             [status |-> "success", message |-> "no news passed the classification",
              total_collected |-> Len(collected),
              after_keyword_filter |-> Len(filtered),
              after_deduplication |-> Len(deduped), after_classification |-> 0,
              final_summaries |-> 0, results |-> <<>>]

\* the dictionary returned by the handler "except Exception"
ErrorResult ==
    [status |-> "error", message |-> "error while processing the pipeline",
     total_collected |-> 0, after_keyword_filter |-> 0, after_deduplication |-> 0,
     after_classification |-> 0, final_summaries |-> 0, results |-> <<>>]

\* the loop over news_results: the lists are joined, anything else is logged
RECURSIVE ExtendAll(_)
ExtendAll(results) ==
    IF results = <<>> THEN <<>>
    ELSE (IF Head(results).raised THEN <<>> ELSE Head(results).value)
             \o ExtendAll(Tail(results))

\* summarize_news dropping the item whose request met a network error
SummarizedAppendSkipNetworkError(summarized_results, news, resp, id) ==
    IF resp.kind = "network_error" THEN summarized_results
    ELSE Append(summarized_results, SummarizeOne(news, resp, id))

\* summarize_news with a client that answers nothing more once a request met
\* a network error
SummarizedAppendAfterFailure(summarized_results, news, resp, id) ==
    IF \E k \in 1..Len(summarized_results) :
           summarized_results[k].summary_type = "fallback_network_error"
    THEN Append(summarized_results,
                SummarizeOne(news, [kind |-> "network_error", summary |-> <<>>], id))
    ELSE Append(summarized_results, SummarizeOne(news, resp, id))

\* summarize_news: one iteration of its loop
SummarizedAppend(summarized_results, news, resp, id) ==
    Append(summarized_results, SummarizeOne(news, resp, id))

\* IssueService.process_news_pipeline_with_response: the IssueResponse built
\* from the dictionary the pipeline returned
ServiceResponse(result) ==
    [status |-> "success",
     message |-> Get(result, "message", "pipeline complete"),
     total_collected |-> Get(result, "total_collected", 0),
     after_keyword_filter |-> Get(result, "after_keyword_filter", 0),
     after_deduplication |-> Get(result, "after_deduplication", 0),
     after_classification |-> Get(result, "after_classification", 0),
     final_summaries |-> Get(result, "final_summaries", 0),
     companies_processed |-> Len(Get(result, "companies_processed", <<>>)),
     results |-> Get(result, "results", <<>>)]

\* the IssueResponse built by its handler "except Exception"
ServiceErrorResponse ==
    [status |-> "error", message |-> "pipeline failed",
     total_collected |-> 0, after_keyword_filter |-> 0, after_deduplication |-> 0,
     after_classification |-> 0, final_summaries |-> 0, companies_processed |-> 0,
     results |-> <<>>]

\* what an adapter answers to the k-th request of its kind in the run: any
\* of its answers, or the one the script of the run fixes
Answers(any, kind, k) ==
    IF script = NoScript THEN any ELSE {script[kind][k]}

-----------------------------------------------------------------------------
(* A run, step by step *)

Init ==
    /\ NoRun
    /\ fop = "none"
    /\ fin = <<>>
    /\ fin_after = <<>>
    /\ fout = <<>>

\* A caller starts a run: through the controller, which substitutes the
\* registry, or through the service, which hands the list it was given to the
\* orchestrator as it is. The orchestrator's first statement takes
\* len(companies) outside its try.
Start ==
    /\ pc = "Idle"
    /\ \E e \in {"controller", "service"}, arg \in CompanyArgs :
          /\ script # NoScript => (e = "service" /\ arg = script.companies)
          /\ LET given == IF e = "controller" THEN ControllerCompanies(arg) ELSE arg
             IN /\ entry' = e
                /\ companies_arg' = arg
                /\ companies' = given
                /\ pc' = IF given.absent THEN "Raised" ELSE "Collecting"
    /\ UNCHANGED <<fetch_log, news_results, all_news, keyword_filtered_news,
                   deduped_news, classified_news, final_results, sum_index, stages_run,
                   classifier_requests, summarizer_requests, pipeline_result, response,
                   fnVars, logVars>>

\* The event loop starts the next fetch task, which runs up to its call of
\* requests.get. The call is synchronous: it holds the thread of the event
\* loop until the answer is there, so no other task starts meanwhile.
FetchStart ==
    /\ pc = "Collecting"
    /\ started = Len(news_results)
    /\ started < Len(companies.names)
    /\ started' = started + 1
    /\ UNCHANGED <<entry, companies_arg, companies, pc, fetch_log, news_results, all_news,
                   keyword_filtered_news, deduped_news, classified_news, final_results,
                   sum_index, stages_run, classifier_requests, summarizer_requests,
                   pipeline_result, response, fnVars, classify_log, summary_log,
                   rerunVars>>

\* requests.get of the running fetch task returns or raises, and the task runs
\* to its end
Fetch ==
    /\ pc = "Collecting"
    /\ started = Len(news_results) + 1
    /\ \E resp \in Answers(FetchResponses, "fetch", started) :
          /\ fetch_log' = Append(fetch_log, resp)
          /\ news_results' =
                 Append(news_results,
                        fetch_news_for_company(companies.names[Len(news_results) + 1], resp))
    /\ UNCHANGED <<entry, companies_arg, companies, pc, all_news, keyword_filtered_news,
                   deduped_news, classified_news, final_results, sum_index, stages_run,
                   classifier_requests, summarizer_requests, pipeline_result, response,
                   fnVars, logVars>>

\* asyncio.gather returns; the results are joined and the empty set ends the run
Gather ==
    /\ pc = "Collecting"
    /\ Len(news_results) = Len(companies.names)
    /\ LET collected == ExtendAll(news_results)
       IN /\ all_news' = collected
          /\ pc' = AfterStage("Collecting", collected)
          /\ pipeline_result' =
                 IF AfterStage("Collecting", collected) = "EmptyAtStage"
                 THEN EmptyResult("Collecting", collected, <<>>, <<>>)
                 ELSE pipeline_result
    /\ stages_run' = Append(stages_run, "Collecting")
    /\ UNCHANGED <<entry, companies_arg, companies, fetch_log, news_results,
                   keyword_filtered_news, deduped_news, classified_news, final_results,
                   sum_index, classifier_requests, summarizer_requests, response, fnVars, logVars>>

FilterStage ==
    /\ pc = "Filtering"
    /\ LET filtered == filter_by_keywords(all_news)
       IN /\ keyword_filtered_news' = filtered
          /\ all_news' = filter_by_keywords_arg_after(all_news)
          /\ pc' = AfterStage("Filtering", filtered)
          /\ pipeline_result' =
                 IF AfterStage("Filtering", filtered) = "EmptyAtStage"
                 THEN EmptyResult("Filtering", all_news, filtered, <<>>)
                 ELSE pipeline_result
    /\ stages_run' = Append(stages_run, "Filtering")
    /\ UNCHANGED <<entry, companies_arg, companies, fetch_log, news_results,
                   deduped_news, classified_news, final_results, sum_index,
                   classifier_requests, summarizer_requests, response, fnVars, logVars>>

DedupStage ==
    /\ pc = "Deduplicating"
    /\ LET deduped == remove_similar_titles(keyword_filtered_news)
       IN /\ deduped_news' = deduped
          /\ pc' = AfterStage("Deduplicating", deduped)
          /\ pipeline_result' =
                 IF AfterStage("Deduplicating", deduped) = "EmptyAtStage"
                 THEN EmptyResult("Deduplicating", all_news, keyword_filtered_news, deduped)
                 ELSE pipeline_result
    /\ stages_run' = Append(stages_run, "Deduplicating")
    /\ UNCHANGED <<entry, companies_arg, companies, fetch_log, news_results, all_news,
                   keyword_filtered_news, classified_news, final_results, sum_index,
                   classifier_requests, summarizer_requests, response, fnVars, logVars>>

\* how the request of classify_news ended: with an answer of status 200, or
\* with another status, a transport error or a timeout
ClassifierOutcome(resp) ==
    IF resp.kind \in {"http_500", "connect_error", "timeout", "network_error"}
    THEN "unavailable" ELSE "answered"

\* app.config.settings.MAX_RETRY_COUNT
MAX_RETRY_COUNT == 3

\* a request sent again, up to MAX_RETRY_COUNT times in all, when it failed
AttemptsWithRetry(failed) == IF failed THEN MAX_RETRY_COUNT ELSE 1

\* how many times an adapter sends one request: once, whether it fails or
\* not (no adapter has a retry loop, and none reads MAX_RETRY_COUNT)
Attempts(failed) == 1

\* classify_news: one batched request and whatever comes back
ClassifyStage ==
    /\ pc = "Classifying"
    /\ \E resp \in Answers(ClassifierResponses(Len(deduped_news)), "classify", 1) :
          LET classified == classify_news(deduped_news, resp)
          IN /\ classified_news' = classified
             /\ classify_log' = ClassifierOutcome(resp)
             /\ pc' = AfterStage("Classifying", classified)
             /\ pipeline_result' =
                    IF AfterStage("Classifying", classified) = "EmptyAtStage"
                    THEN EmptyResult("Classifying", all_news, keyword_filtered_news,
                                     deduped_news)
                    ELSE pipeline_result
             /\ classifier_requests' =
                    classifier_requests +
                    (IF deduped_news = <<>> THEN 0
                     ELSE Attempts(ClassifierOutcome(resp) = "unavailable"))
    /\ stages_run' = Append(stages_run, "Classifying")
    /\ UNCHANGED <<entry, companies_arg, companies, fetch_log, news_results, all_news,
                   keyword_filtered_news, deduped_news, final_results, sum_index,
                   summarizer_requests, response, fnVars, started, summary_log,
                   rerunVars>>

SummarizeOpened == stages_run # <<>> /\ stages_run[Len(stages_run)] = "Summarizing"

\* summarize_news is entered and its http client is opened; a failure there is
\* outside the per-item handlers and reaches the orchestrator's handler
SummarizeOpen ==
    /\ pc = "Summarizing"
    /\ ~ SummarizeOpened
    /\ stages_run' = Append(stages_run, "Summarizing")
    /\ \E opened \in Answers(BOOLEAN, "client", 1) :
          IF opened THEN UNCHANGED <<pc, pipeline_result>>
          ELSE /\ pc' = "Error"
               /\ pipeline_result' = ErrorResult
    /\ UNCHANGED <<entry, companies_arg, companies, fetch_log, news_results, all_news,
                   keyword_filtered_news, deduped_news, classified_news, final_results,
                   sum_index, classifier_requests, summarizer_requests, response, fnVars, logVars>>

\* the requests of all the items posted without awaiting any of them
SummarizeMayPostGathered == TRUE

\* the loop of summarize_news may post the request of its next item: the loop
\* is at `await client.post` for no earlier item
SummarizeMayPost == summarizer_requests = sum_index

\* one iteration of the loop of summarize_news up to `await client.post`: the
\* request of the next item is sent and the coroutine is suspended
SummarizePost ==
    /\ pc = "Summarizing"
    /\ SummarizeOpened
    /\ sum_index < Len(classified_news)
    /\ summarizer_requests < Len(classified_news)
    /\ SummarizeMayPost
    /\ summarizer_requests' = summarizer_requests + 1
    /\ UNCHANGED <<entry, companies_arg, companies, pc, fetch_log, news_results, all_news,
                   keyword_filtered_news, deduped_news, classified_news, final_results,
                   sum_index, stages_run, classifier_requests, pipeline_result, response,
                   fnVars, logVars>>

\* the rest of the iteration: the answer (or the failure) of the posted request
\* is turned into one result
SummarizeItem ==
    /\ pc = "Summarizing"
    /\ SummarizeOpened
    /\ sum_index < Len(classified_news)
    /\ summarizer_requests > sum_index
    /\ \E resp \in Answers(SummarizerResponses, "summarize", sum_index + 1) :
          /\ final_results' = SummarizedAppend(final_results, classified_news[sum_index + 1],
                                               resp, sum_index + 1)
          /\ summary_log' = Append(summary_log, resp)
          /\ summarizer_requests' = summarizer_requests + Attempts(resp.kind # "ok") - 1
    /\ sum_index' = sum_index + 1
    /\ UNCHANGED <<entry, companies_arg, companies, pc, fetch_log, news_results, all_news,
                   keyword_filtered_news, deduped_news, classified_news, stages_run,
                   classifier_requests, pipeline_result, response, fnVars, started,
                   classify_log, rerunVars>>

\* summarize_news returns and the orchestrator builds its result
SummarizeFinish ==
    /\ pc = "Summarizing"
    /\ SummarizeOpened
    /\ sum_index = Len(classified_news)
    /\ pc' = "Done"
    /\ pipeline_result' =
           [status |-> "success", message |-> "news pipeline complete",
            total_collected |-> Len(all_news),
            after_keyword_filter |-> Len(keyword_filtered_news),
            after_deduplication |-> Len(deduped_news),
            after_classification |-> Len(classified_news),
            final_summaries |-> Len(final_results),
            companies_processed |-> companies.names,
            results |-> final_results]
    /\ UNCHANGED <<entry, companies_arg, companies, fetch_log, news_results, all_news,
                   keyword_filtered_news, deduped_news, classified_news, final_results,
                   sum_index, stages_run, classifier_requests, summarizer_requests,
                   response, fnVars, logVars>>

Returned == pc \in {"Done", "EmptyAtStage", "Error"}

\* IssueService.process_news_pipeline_with_response builds the IssueResponse,
\* which the controller hands on as it is
ServiceRespond ==
    /\ response = NoResponse
    /\ Returned \/ pc = "Raised"
    /\ response' = IF pc = "Raised" THEN ServiceErrorResponse
                   ELSE ServiceResponse(pipeline_result)
    /\ UNCHANGED <<entry, companies_arg, companies, pc, fetch_log, news_results, all_news,
                   keyword_filtered_news, deduped_news, classified_news, final_results,
                   sum_index, stages_run, classifier_requests, summarizer_requests,
                   pipeline_result, fnVars, logVars>>

Next ==
    \/ Start
    \/ FetchStart
    \/ Fetch
    \/ Gather
    \/ FilterStage
    \/ DedupStage
    \/ ClassifyStage
    \/ SummarizeOpen
    \/ SummarizePost
    \/ SummarizeItem
    \/ SummarizeFinish
    \/ ServiceRespond

Spec == Init /\ [][Next]_vars

-----------------------------------------------------------------------------
(* Properties of a run *)

\* a count as the callers read it: result.get(key, 0)
Count(result, key) == Get(result, key, 0)

CountsNonIncreasing(result) ==
    /\ Count(result, "final_summaries") <= Count(result, "after_classification")
    /\ Count(result, "after_classification") <= Count(result, "after_deduplication")
    /\ Count(result, "after_deduplication") <= Count(result, "after_keyword_filter")
    /\ Count(result, "after_keyword_filter") <= Count(result, "total_collected")

ZeroCounts(result) ==
    \A key \in {"total_collected", "after_keyword_filter", "after_deduplication",
                "after_classification", "final_summaries"} : Count(result, key) = 0

\* the output of the k-th stage
StageOutput(k) ==
    CASE k = 1 -> all_news
      [] k = 2 -> keyword_filtered_news
      [] k = 3 -> deduped_news
      [] k = 4 -> classified_news
      [] k = 5 -> final_results

\* C1: in every run of process_news_pipeline that returns, whatever the source,
\* the classifier and the summarizer answered, the reported counts satisfy
\* final_summaries <= after_classification <= after_deduplication
\* <= after_keyword_filter <= total_collected (a count is read as the callers
\* read it, a missing key as 0), in the dictionary and in the IssueResponse.
C1_CountsNonIncreasing ==
    /\ Returned => CountsNonIncreasing(pipeline_result)
    /\ response # NoResponse => CountsNonIncreasing(response)

\* a complete run in which similar-title removal dropped one of two items
C1_Witness ==
    /\ pc = "Done"
    /\ pipeline_result.total_collected = 2
    /\ pipeline_result.after_keyword_filter = 2
    /\ pipeline_result.after_deduplication = 1
    /\ pipeline_result.final_summaries = 1

\* C2: summarize_news gives exactly one result per input item, at the same
\* position and carrying that item's company and title, whatever the outcome
\* of the item's request; so in every run that reaches Summarizing
\* final_summaries equals after_classification.
C2_OneResultPerItem ==
    /\ Len(final_results) = sum_index
    /\ sum_index <= Len(classified_news)
    /\ \A i \in 1..Len(final_results) :
          /\ final_results[i].corp = classified_news[i].company
          /\ final_results[i].original_title = classified_news[i].title
    /\ pc = "Done" =>
          /\ Len(final_results) = Len(classified_news)
          /\ pipeline_result.results = final_results
          /\ pipeline_result.final_summaries = Len(classified_news)
    /\ (Returned /\ Len(stages_run) = 5) =>
          Count(pipeline_result, "final_summaries")
              = Count(pipeline_result, "after_classification")

\* a complete run of two items, the first request met a network error and the
\* second was answered by the model
C2_Witness ==
    /\ pc = "Done"
    /\ Len(final_results) = 2
    /\ final_results[1].summary_type = "fallback_network_error"
    /\ final_results[2].summary_type = "ai_generated"
    /\ final_results[1].original_title # final_results[2].original_title

StageTransitions ==
    { <<"Idle", "Collecting">>, <<"Idle", "Raised">>,
      <<"Collecting", "Filtering">>, <<"Collecting", "EmptyAtStage">>,
      <<"Filtering", "Deduplicating">>, <<"Filtering", "EmptyAtStage">>,
      <<"Deduplicating", "Classifying">>, <<"Deduplicating", "EmptyAtStage">>,
      <<"Classifying", "Summarizing">>, <<"Classifying", "EmptyAtStage">>,
      <<"Summarizing", "Done">>, <<"Summarizing", "Error">> }

StagesInOrder ==
    /\ Len(stages_run) <= Len(StageOrder)
    /\ \A k \in 1..Len(stages_run) : stages_run[k] = StageOrder[k]
    /\ pc \in {"Filtering", "Deduplicating", "Classifying", "Summarizing"} =>
          \A k \in 1..Len(stages_run) : k < 5 => StageOutput(k) # <<>>
    /\ pc = "EmptyAtStage" =>
          /\ Len(stages_run) \in 1..4
          /\ StageOutput(Len(stages_run)) = <<>>
          /\ \A k \in 1..(Len(stages_run) - 1) : StageOutput(k) # <<>>
          /\ \A k \in (Len(stages_run) + 1)..5 : StageOutput(k) = <<>>
          /\ pipeline_result.status = "success"
          /\ pipeline_result.results = <<>>
          /\ summarizer_requests = 0
          /\ classifier_requests = (IF Len(stages_run) = 4 THEN 1 ELSE 0)
    /\ pc = "Done" =>
          /\ stages_run = StageOrder
          /\ \A k \in 1..5 : StageOutput(k) # <<>>

StageStep ==
    /\ pc' # pc => <<pc, pc'>> \in StageTransitions
    /\ stages_run' # stages_run => pc = StageOrder[Len(stages_run')]
    /\ classifier_requests' # classifier_requests => pc = "Classifying"
    /\ summarizer_requests' # summarizer_requests => pc = "Summarizing"
    /\ pc \in {"Done", "EmptyAtStage", "Error", "Raised"} =>
          UNCHANGED <<pc, stages_run, classifier_requests, summarizer_requests,
                      pipeline_result, final_results>>

\* C3: a run executes its stages only in the order Collecting, Filtering,
\* Deduplicating, Classifying, Summarizing, Done; when the output of one of the
\* first four stages is empty the run ends at once with status success and an
\* empty result list and no later stage runs (no classifier request and no
\* summarizer request is issued after an empty stage); an empty-stage exit
\* never happens from Summarizing.
C3_StagesInOrder == [] StagesInOrder /\ [][StageStep]_vars

\* a run that ended because no item passed the classification
C3_Witness ==
    /\ pc = "EmptyAtStage"
    /\ stages_run = <<"Collecting", "Filtering", "Deduplicating", "Classifying">>
    /\ Len(deduped_news) = 2
    /\ classifier_requests = 1

\* C4: when a run ends early because stage n produced an empty output, the
\* count of every stage before n equals the size of that stage's output and
\* the counts of stage n and of every later stage are 0 (a count is read as
\* the callers read it, a missing key as 0).
C4_EarlyExitStatsAccurate ==
    pc = "EmptyAtStage" =>
        LET n == Len(stages_run)
            Real(k) == IF k < n THEN Len(StageOutput(k)) ELSE 0
        IN /\ StageOutput(n) = <<>>
           /\ Count(pipeline_result, "total_collected") = Real(1)
           /\ Count(pipeline_result, "after_keyword_filter") = Real(2)
           /\ Count(pipeline_result, "after_deduplication") = Real(3)
           /\ Count(pipeline_result, "after_classification") = Real(4)
           /\ Count(pipeline_result, "final_summaries") = Real(5)
           /\ response # NoResponse =>
                 /\ response.total_collected = Real(1)
                 /\ response.after_keyword_filter = Real(2)
                 /\ response.after_deduplication = Real(3)
                 /\ response.after_classification = Real(4)
                 /\ response.final_summaries = Real(5)

\* a run with two collected items, both past the filter and the removal of
\* similar titles, that ended because the classifier accepted none
C4_Witness ==
    /\ pc = "EmptyAtStage"
    /\ Len(stages_run) = 4
    /\ pipeline_result.total_collected = 2
    /\ pipeline_result.after_deduplication = 2
    /\ response # NoResponse

\* C5: process_news_pipeline never lets an exception escape to its caller: for
\* every input, an absent company list included, and for every failure inside
\* it, it returns a result with status error, all five counts 0 and an empty
\* result list.
C5_NoExceptionEscapes ==
    /\ pc # "Raised"
    /\ pc = "Error" =>
          /\ pipeline_result.status = "error"
          /\ ZeroCounts(pipeline_result)
          /\ pipeline_result.results = <<>>

\* C6: whenever process_news_pipeline ends with status error, the response of
\* IssueService.process_news_pipeline_with_response carries status error with
\* zero counts; status success is reported only for runs that ended Done or
\* at an empty stage.
C6_ErrorSurfaces ==
    response # NoResponse =>
        /\ pc = "Error" => response.status = "error" /\ ZeroCounts(response)
        /\ response.status = "success" => pc \in {"Done", "EmptyAtStage"}

\* the fetch of a company succeeded: a 2xx answer whose body is well formed
FetchSucceeded(resp) ==
    resp.kind = "ok" /\ \A k \in 1..Len(resp.items) : resp.items[k].wellformed

\* the records of a successful fetch
ExpectedItems(company, resp) ==
    [k \in 1..Len(resp.items) |->
        [company |-> company,
         title |-> clean_html_tags(resp.items[k].title),
         description |-> clean_html_tags(resp.items[k].description),
         link |-> resp.items[k].link,
         pubDate |-> resp.items[k].pubDate]]

RECURSIVE ExpectedCollected(_)
ExpectedCollected(n) ==
    IF n = 0 THEN <<>>
    ELSE ExpectedCollected(n - 1)
             \o (IF FetchSucceeded(fetch_log[n])
                 THEN ExpectedItems(companies.names[n], fetch_log[n])
                 ELSE <<>>)

\* C7: collection failures are isolated per company: for every company whose
\* fetch fails (HTTP 401, other non-2xx, connection error, timeout, malformed
\* body) fetch_news_for_company returns an empty list without raising, the run
\* is not aborted, and the collected set is the concatenation, in company-list
\* order, of the items of the companies whose fetch succeeded.
C7_FetchFailuresIsolated ==
    /\ Len(fetch_log) = Len(news_results)
    /\ \A i \in 1..Len(news_results) :
          /\ ~ news_results[i].raised
          /\ news_results[i].value =
                 IF FetchSucceeded(fetch_log[i])
                 THEN ExpectedItems(companies.names[i], fetch_log[i])
                 ELSE <<>>
    /\ Len(stages_run) = 1 =>
          /\ Len(news_results) = Len(companies.names)
          /\ all_news = ExpectedCollected(Len(fetch_log))
    /\ pc = "Error" => Len(stages_run) = 5
    /\ pc = "Raised" => fetch_log = <<>>

\* the first company's fetch was refused with 401, the second one's succeeded
\* with one item, and that item is the collected set
C7_Witness ==
    /\ pc = "Filtering"
    /\ Len(stages_run) = 1
    /\ Len(fetch_log) = 2
    /\ fetch_log[1].kind = "http_401"
    /\ fetch_log[2].kind = "ok"
    /\ Len(all_news) = 1
    /\ all_news[1].company = COMPANY_NAMES[2]

DefaultCompanies == [absent |-> FALSE, names |-> COMPANY_NAMES]

\* the original statement of C8: a run requested with an empty or absent
\* company list is run over COMPANY_NAMES and the collection stage never runs
\* with zero target companies, through the controller as through
\* NewsPipelineService.process_news_pipeline itself
C8_Original ==
    pc # "Idle" =>
        /\ ~ Truthy(companies_arg) => companies = DefaultCompanies
        /\ stages_run # <<>> => companies.names # <<>>

\* C8 (amended): a run started through IssueController.process_news_pipeline
\* with an empty or absent company list is run over COMPANY_NAMES, and the
\* collection stage of a run started through the controller never runs with
\* zero target companies; NewsPipelineService.process_news_pipeline substitutes
\* nothing and works on the list it was given.
C8_ControllerSubstitutesDefault ==
    pc # "Idle" =>
        /\ entry = "controller" =>
              /\ companies = IF Truthy(companies_arg) THEN companies_arg
                             ELSE DefaultCompanies
              /\ companies.names # <<>>
              /\ pc # "Raised"
        /\ entry = "service" => companies = companies_arg

\* a run started through the controller with an empty list, collected over
\* the registry
C8_Witness ==
    /\ entry = "controller"
    /\ ~ companies_arg.absent
    /\ companies_arg.names = <<>>
    /\ stages_run # <<>>
    /\ Len(news_results) = Len(COMPANY_NAMES)

-----------------------------------------------------------------------------
(* ClassifierService.classify_news applied to a list and an answer *)

MaxClassifyLen == 3

\* the deduplicated items handed to the classifier
ClassifyItems ==
    [k \in 1..MaxClassifyLen |-> NewsOf(<<"K">>, <<"a", "i", " ">> \o <<ToString(k)>>, "u")]

ClassifyInputs ==
    {[news_list |-> SubSeq(ClassifyItems, 1, n), resp |-> r] :
        n \in 0..MaxClassifyLen, r \in ClassifierResponses(MaxClassifyLen)}

InitClassify ==
    /\ NoRun
    /\ fop = "none"
    /\ fin \in ClassifyInputs
    /\ fin_after = fin
    /\ fout = <<>>

ApplyClassify ==
    /\ fop = "none"
    /\ fop' = "classify_news"
    /\ fout' = classify_news(fin.news_list, fin.resp)
    /\ UNCHANGED <<fin, fin_after, runVars>>

SpecClassify == InitClassify /\ [][ApplyClassify]_vars

Classified == fop = "classify_news"

\* the positions of the input that the answer covers
Covered == 1..(IF Len(fin.resp.result) < Len(fin.news_list)
               THEN Len(fin.resp.result) ELSE Len(fin.news_list))

\* the positions of the input whose entry has a confidence of 0.6 or more
Admitted == {i \in Covered : fin.resp.result[i].confidence >= 60}

\* input item i with the label and the confidence of entry i
Paired(i) ==
    [classification |-> [label |-> fin.resp.result[i].label,
                         confidence |-> fin.resp.result[i].confidence]]
        @@ fin.news_list[i]

PairedByPosition ==
    /\ Len(fout) = Cardinality(Admitted)
    /\ \A j \in 1..Len(fout) : fout[j] = Paired(Nth(Admitted, j))

C13_OnlyImportant ==
    Classified =>
        /\ \A j \in 1..Len(fout) :
              /\ "classification" \in DOMAIN fout[j]
              /\ fout[j].classification.label = "important"
        /\ (fin.resp.kind = "ok" /\ \A i \in Covered : fin.resp.result[i].wellformed) =>
              \A i \in Covered :
                  fin.resp.result[i].label # "important" =>
                      \A j \in 1..Len(fout) : fout[j].title # fin.news_list[i].title

-----------------------------------------------------------------------------
(* Classifier and summarizer in a run *)

\* C12: when the classifier request of a run ends with a status other than
\* 200, a transport error or a timeout, classify_news returns every input
\* item, in input order, each annotated with label important and confidence
\* 0.7; the run goes on to Summarizing and reports after_classification equal
\* to after_deduplication; the run is not stopped and no item is dropped.
C12_ClassifierFallbackKeepsAll ==
    classify_log = "unavailable" =>
        /\ Len(classified_news) = Len(deduped_news)
        /\ \A i \in 1..Len(deduped_news) :
              classified_news[i] =
                  [classification |-> [label |-> "important", confidence |-> 70]]
                      @@ deduped_news[i]
        /\ pc \in {"Summarizing", "Done", "Error"}
        /\ pc = "Done" =>
              /\ pipeline_result.after_classification = Len(deduped_news)
              /\ pipeline_result.after_classification
                     = pipeline_result.after_deduplication

\* a complete run of two items whose classifier request failed
C12_Witness ==
    /\ classify_log = "unavailable"
    /\ pc = "Done"
    /\ Len(deduped_news) = 2
    /\ pipeline_result.after_classification = 2
    /\ pipeline_result.final_summaries = 2

-----------------------------------------------------------------------------
(* SummaryService: the loop body of summarize_news applied to one item and *)
(* one answer of the summarizer                                             *)

MaxCompanyLen == 101
MaxTitleLen == 71
MaxDescriptionLen == 60

\* a text of n characters
Text(c, n) == [k \in 1..n |-> c]

\* the record with the key bound to the text of length n, or without the key
Keyed(key, c, n) == IF n < 0 THEN <<>> ELSE [k \in {key} |-> Text(c, n)]

\* classified items: company, title and description absent (-1), empty, or of
\* a length on either side of the limits of _generate_fallback_summary; the
\* timestamp absent, empty, in the format of the search API, or in another
SummaryItems ==
    {[link |-> "u"] @@ Keyed("company", "K", c) @@ Keyed("title", "t", t)
         @@ Keyed("description", "d", d) @@ p :
        c \in {-1, 0, 1, 25, MaxCompanyLen},
        t \in {-1, 0, 1, 31, MaxTitleLen},
        d \in {-1, 0, 1, MaxDescriptionLen},
        p \in {<<>>, [pubDate |-> <<>>], [pubDate |-> ValidPubDate], [pubDate |-> <<"x">>]}}

\* what the summarizer answers to one request: the answers a run draws from,
\* a timeout, a 200 answer of blanks, and a 200 answer without the key "summary"
SummarizerAnswers ==
    SummarizerResponses
        \cup {[kind |-> "timeout", summary |-> <<>>],
              [kind |-> "ok", summary |-> <<" ">>], [kind |-> "ok"]}

InitSummarize ==
    /\ NoRun
    /\ fop = "none"
    /\ fin \in {[news |-> n, resp |-> r] : n \in SummaryItems, r \in SummarizerAnswers}
    /\ fin_after = fin
    /\ fout = <<>>

ApplySummarize ==
    /\ fop = "none"
    /\ fop' = "summarize_news"
    /\ fout' = SummarizedAppend(<<>>, fin.news, fin.resp, 1)
    /\ UNCHANGED <<fin, fin_after, runVars>>

SpecSummarize == InitSummarize /\ [][ApplySummarize]_vars

\* the text the model returned is there and not blank
ModelText(resp) ==
    /\ resp.kind = "ok"
    /\ Get(resp, "summary", <<>>) # <<>>
    /\ \E k \in 1..Len(resp.summary) : ~ IsSpace(resp.summary[k])

C15_FallbackSummaryBounded ==
    fop = "summarize_news" =>
        /\ fout[1].summary # <<>>
        /\ ~ ModelText(fin.resp) =>
              /\ fout[1].summary = generate_fallback_summary(fin.news)
              /\ Len(fout[1].summary) <= 100
              /\ StrIn(Get(fin.news, "company", <<>>), fout[1].summary)

\* the timestamp of the item is of the form the search API gives
Parses(pub_date) == pub_date = ValidPubDate

IsDate(d) == Len(d) = 8 /\ \A k \in 1..8 : d[k] \in Digits

\* the original statement of C17: every result has a published date of eight
\* digits, the date of the timestamp when it parses and the current date
\* whenever it does not, an empty or absent timestamp included
C17_Original ==
    fop = "summarize_news" =>
        LET pub_date == Get(fin.news, "pubDate", <<>>)
        IN /\ IsDate(fout[1].published_date)
           /\ fout[1].published_date =
                  IF Parses(pub_date) THEN <<"2", "0", "2", "3", "1", "2", "1", "8">>
                  ELSE Today

\* C17 (amended): every result built from an item with a non-empty timestamp
\* has a published date in the form YYYYMMDD (8 digits): the date of the
\* timestamp when it parses and the current date when it does not; for an item
\* whose timestamp is empty or absent the published date is the empty string;
\* a date problem never fails or drops the item.
C17_PublishedDateNormalized ==
    fop = "summarize_news" =>
        LET pub_date == Get(fin.news, "pubDate", <<>>)
        IN /\ Len(fout) = 1
           /\ fout[1].original_title = Get(fin.news, "title", "None")
           /\ pub_date # <<>> => IsDate(fout[1].published_date)
           /\ fout[1].published_date =
                  IF pub_date = <<>> THEN <<>>
                  ELSE IF Parses(pub_date) THEN <<"2", "0", "2", "3", "1", "2", "1", "8">>
                  ELSE Today

\* a result whose timestamp did not parse, dated today, with the model's text
C17_Witness ==
    /\ fop = "summarize_news"
    /\ Get(fin.news, "pubDate", <<>>) = <<"x">>
    /\ fin.resp.kind = "ok"
    /\ fout[1].summary_type = "ai_generated"
    /\ fout[1].published_date = Today

-----------------------------------------------------------------------------
(* The loop of summarize_news in a run *)

\* C16: a failure of the summarizer request of one item (another status than
\* 200, a timeout, a transport error, another exception) degrades only that
\* item to a fallback result: every item of the classified sequence, before
\* and after it, gets its own request, and its result is the one of its own
\* item and of the answer to its own request; the loop never stops early.
C16_SummarizerFailureIsolated ==
    /\ Len(summary_log) = sum_index
    /\ summarizer_requests \in {sum_index, sum_index + 1}
    /\ Len(final_results) = sum_index
    /\ \A i \in 1..Len(final_results) :
          final_results[i] = SummarizeOne(classified_news[i], summary_log[i], i)
    /\ pc = "Done" =>
          /\ summarizer_requests = Len(classified_news)
          /\ pipeline_result.results = final_results

\* a complete run of two items: the request of the first failed, the second
\* one's was answered by the model
C16_Witness ==
    /\ pc = "Done"
    /\ Len(summary_log) = 2
    /\ summary_log[1].kind = "http_500"
    /\ summary_log[2].kind = "ok"
    /\ final_results[1].summary_type = "fallback_api_error_500"
    /\ final_results[2].summary_type = "ai_generated"
    /\ final_results[2].summary = ModelSummary

\* C19: every completed run reports the companies it targeted, on the full
\* path as on every early-exit path: companies_processed of the response
\* built by IssueService.process_news_pipeline_with_response equals the number
\* of companies the run was started with.
C19_CompaniesReported ==
    (Returned /\ response # NoResponse) =>
        response.companies_processed = Len(companies.names)

\* C20: during the collection stage the fetches of different companies are in
\* flight concurrently: while the fetch of one company is waiting for its
\* answer, the fetch of a company not yet started can start; a slow or failing
\* fetch does not delay the start of its siblings.
C20_FetchesConcurrent ==
    (pc = "Collecting" /\ started > Len(news_results) /\ started < Len(companies.names))
        => ENABLED FetchStart

-----------------------------------------------------------------------------
(* Runs repeated with the same adapter answers *)

\* the scripts of a run over one company: the answer of the search API, of the
\* classifier, whether the summarizer's client opens, the summarizer's answer
Scripts ==
    {[companies |-> [absent |-> FALSE, names |-> SubSeq(COMPANY_NAMES, 1, 1)],
      fetch |-> <<f>>, classify |-> <<c>>, client |-> <<o>>, summarize |-> <<z>>] :
        f \in {r \in FetchResponses :
                  \/ r.kind = "http_500"
                  \/ r.kind = "ok" /\ Len(r.items) = 1 /\ r.items[1].link \in {"u1", "u3"}},
        c \in {r \in ClassifierResponses(1) :
                  \/ r.kind = "http_500"
                  \/ r.kind = "ok" /\ Len(r.result) = 1 /\ r.result[1].wellformed},
        o \in BOOLEAN,
        z \in {r \in SummarizerResponses :
                  r.kind = "network_error" \/ (r.kind = "ok" /\ r.summary = ModelSummary)}}

InitRerun ==
    /\ NoRunLocals
    /\ script \in Scripts
    /\ clock = 1
    /\ first = NoResult
    /\ conc = NoConc
    /\ batch = NoBatch
    /\ fop = "none"
    /\ fin = <<>>
    /\ fin_after = <<>>
    /\ fout = <<>>

\* the result of a run without the ids, which uuid4 draws afresh
WithoutIds(result) ==
    [result EXCEPT !.results =
        [k \in 1..Len(result.results) |->
            [f \in DOMAIN result.results[k] \ {"id"} |-> result.results[k][f]]]]

\* A run has returned and its response is built; the process serves the next
\* request, on the same day or the next one. Nothing of the finished call is
\* kept: its values were locals, and the services hold no state but their
\* configuration. The first run is remembered for comparison; the run after
\* the second one repeats the first.
Rerun ==
    /\ Returned
    /\ response # NoResponse
    /\ script # NoScript
    /\ Get(first, "runs", 0) < 2
    /\ first' = IF first = NoResult
                THEN [script |-> script, clock |-> clock,
                      result |-> WithoutIds(pipeline_result), runs |-> 1]
                ELSE [first EXCEPT !.runs = 2]
    /\ script' \in (IF first = NoResult THEN Scripts ELSE {first.script})
    /\ clock' \in 1..Len(Days)
    /\ entry' = "none"
    /\ companies_arg' = NoCompanies
    /\ companies' = NoCompanies
    /\ pc' = "Idle"
    /\ fetch_log' = <<>>
    /\ news_results' = <<>>
    /\ all_news' = <<>>
    /\ keyword_filtered_news' = <<>>
    /\ deduped_news' = <<>>
    /\ classified_news' = <<>>
    /\ final_results' = <<>>
    /\ sum_index' = 0
    /\ stages_run' = <<>>
    /\ classifier_requests' = 0
    /\ summarizer_requests' = 0
    /\ pipeline_result' = NoResult
    /\ response' = NoResponse
    /\ started' = 0
    /\ classify_log' = NoAnswer
    /\ summary_log' = <<>>
    /\ UNCHANGED <<fnVars, conc, batch>>

NextRerun == Next \/ Rerun

SpecRerun == InitRerun /\ [][NextRerun]_vars

\* a run with the script of the remembered run has returned
Repeated == Returned /\ first # NoResult /\ script = first.script

\* the original statement of C18: two runs with the same company list and
\* identical source, classifier and summarizer answers return identical
\* statistics and identical results in every field except id, whatever ran
\* in between
C18_Original ==
    Repeated => WithoutIds(pipeline_result) = first.result

\* the results without the published date of the items whose non-empty
\* timestamp does not parse
WithoutRunDates(result) ==
    [result EXCEPT !.results =
        [k \in 1..Len(result.results) |->
            IF \E i \in 1..Len(fetch_log) :
                   /\ fetch_log[i].kind = "ok"
                   /\ \E j \in 1..Len(fetch_log[i].items) :
                          /\ fetch_log[i].items[j].link = result.results[k].news_url
                          /\ fetch_log[i].items[j].pubDate # <<>>
                          /\ ~ Parses(fetch_log[i].items[j].pubDate)
            THEN [result.results[k] EXCEPT !.published_date = <<>>]
            ELSE result.results[k]]]

\* C18 (amended): two runs of process_news_pipeline with the same company list
\* and identical source, classifier and summarizer answers return identical
\* statistics and identical results in every field except id and, for an item
\* whose non-empty timestamp does not parse, published_date, which is the date
\* of the run (identical too when both runs are on the same day), whatever
\* runs happened in between; no state left by a run changes a later one.
C18_RunsRepeatable ==
    Repeated =>
        /\ WithoutRunDates(WithoutIds(pipeline_result)) = WithoutRunDates(first.result)
        /\ clock = first.clock => WithoutIds(pipeline_result) = first.result

\* the first run is repeated on the next day, after a run with other answers:
\* the result, an item with a timestamp that parses, is the same
C18_Witness ==
    /\ Repeated
    /\ first.runs = 2
    /\ clock # first.clock
    /\ pc = "Done"
    /\ Len(pipeline_result.results) = 1
    /\ pipeline_result.results[1].published_date = <<"2", "0", "2", "3", "1", "2", "1", "8">>
    /\ WithoutIds(pipeline_result) = first.result

-----------------------------------------------------------------------------
(* The records a stage received, after the stage returned *)

\* C21: no stage mutates a record it received: after filter_by_keywords,
\* remove_similar_titles, classify_news or summarize_news returned, every record
\* of the stage's input has exactly the fields and values it had before the call
\* (the additions of the stage appear on the records of its output only).
C21_StagesLeaveInputUntouched ==
    fop # "none" => fin_after = fin

-----------------------------------------------------------------------------
(* The requests of the summarizer loop *)

\* C22: within one run the summarizer requests are issued one after the other
\* in input order: at most one request is outstanding at any time, the request
\* of item i+1 is issued only after item i has been resolved to a result, and
\* result i is the one of item i.
C22_SummarizerSequential ==
    /\ summarizer_requests - Len(final_results) \in {0, 1}
    /\ sum_index = Len(final_results)
    /\ \A i \in 1..Len(final_results) :
          /\ final_results[i].original_title = Get(classified_news[i], "title", "None")
          /\ final_results[i].news_url = Get(classified_news[i], "link", <<>>)

\* the request of the second item is outstanding, the first item has its result
C22_Witness ==
    /\ pc = "Summarizing"
    /\ Len(classified_news) = 2
    /\ summarizer_requests = 2
    /\ Len(final_results) = 1
    /\ final_results[1].news_url # classified_news[2].link

-----------------------------------------------------------------------------
(* Calls of process_news_pipeline in progress at the same time on the       *)
(* singleton services, interleaved at their awaits                          *)

Runs == {1, 2}

\* the answers to the requests of call r, which targets company r of the registry
ConcScripts(r) ==
    {[s EXCEPT !.companies.names = SubSeq(COMPANY_NAMES, r, r)] : s \in Scripts}

\* the locals of a call that has just begun
InitialFrame ==
    [pc |-> "Collecting", news_results |-> <<>>, all_news |-> <<>>,
     keyword_filtered_news |-> <<>>, deduped_news |-> <<>>, classified_news |-> <<>>,
     final_results |-> <<>>, result |-> NoResult]

\* One step of a call from one await to the next, on its locals f and with the
\* answers s to its own requests: a fetch task; the code from the return of
\* gather to the request of the classifier; from the classifier's answer to
\* the first request of the summarizer; from one summarizer answer to the next
\* request or to the return.
FrameStep(f, s) ==
    CASE f.pc = "Collecting" /\ Len(f.news_results) < Len(s.companies.names) ->
           LET k == Len(f.news_results) + 1
           IN [f EXCEPT !.news_results =
                  Append(@, fetch_news_for_company(s.companies.names[k], s.fetch[k]))]
      [] f.pc = "Collecting" /\ Len(f.news_results) = Len(s.companies.names) ->
           LET collected == ExtendAll(f.news_results)
               filtered == filter_by_keywords(collected)
               deduped == remove_similar_titles(filtered)
               after == filter_by_keywords_arg_after(collected)
           IN IF collected = <<>>
              THEN [f EXCEPT !.pc = "Done",
                             !.result = EmptyResult("Collecting", collected, <<>>, <<>>)]
              ELSE IF filtered = <<>>
              THEN [f EXCEPT !.pc = "Done", !.all_news = after,
                             !.result = EmptyResult("Filtering", after, filtered, <<>>)]
              ELSE IF deduped = <<>>
              THEN [f EXCEPT !.pc = "Done", !.all_news = after,
                             !.keyword_filtered_news = filtered,
                             !.result = EmptyResult("Deduplicating", after, filtered, deduped)]
              ELSE [f EXCEPT !.pc = "Classifying", !.all_news = after,
                             !.keyword_filtered_news = filtered,
                             !.deduped_news = deduped]
      [] f.pc = "Classifying" ->
           LET classified == classify_news(f.deduped_news, s.classify[1])
           IN IF classified = <<>>
              THEN [f EXCEPT !.pc = "Done",
                             !.result = EmptyResult("Classifying", f.all_news,
                                                    f.keyword_filtered_news, f.deduped_news)]
              ELSE IF ~ s.client[1]
              THEN [f EXCEPT !.pc = "Done", !.classified_news = classified,
                             !.result = ErrorResult]
              ELSE [f EXCEPT !.pc = "Summarizing", !.classified_news = classified]
      [] f.pc = "Summarizing" ->
           LET i == Len(f.final_results) + 1
               summarized == SummarizedAppend(f.final_results, f.classified_news[i],
                                              s.summarize[i], i)
           IN IF i < Len(f.classified_news)
              THEN [f EXCEPT !.final_results = summarized]
              ELSE [f EXCEPT !.pc = "Done", !.final_results = summarized,
                             !.result =
                                [status |-> "success", message |-> "news pipeline complete",
                                 total_collected |-> Len(f.all_news),
                                 after_keyword_filter |-> Len(f.keyword_filtered_news),
                                 after_deduplication |-> Len(f.deduped_news),
                                 after_classification |-> Len(f.classified_news),
                                 final_summaries |-> Len(summarized),
                                 companies_processed |-> s.companies.names,
                                 results |-> summarized]]
      [] OTHER -> f

\* the call run to its return with no other call in progress
RECURSIVE RunAlone(_, _)
RunAlone(f, s) == IF f.pc = "Done" THEN f ELSE RunAlone(FrameStep(f, s), s)

\* the lists of all calls kept on the singleton service
FrameOfSingleton(r) == 1

\* where call r keeps all_news, keyword_filtered_news, deduped_news,
\* classified_news and final_results: in its own locals
Frame(r) == r

InitConcurrent ==
    /\ NoRunLocals
    /\ script = NoScript
    /\ clock = 1
    /\ first = NoResult
    /\ \E s1 \in ConcScripts(1), s2 \in ConcScripts(2) :
          conc = [frames |-> <<InitialFrame, InitialFrame>>, scripts |-> <<s1, s2>>]
    /\ batch = NoBatch
    /\ fop = "none"
    /\ fin = <<>>
    /\ fin_after = <<>>
    /\ fout = <<>>

\* the event loop resumes one of the calls, which runs to its next await
ConcurrentStep ==
    /\ \E r \in Runs :
          /\ conc.frames[r].pc # "Done"
          /\ conc' = [conc EXCEPT !.frames[Frame(r)] =
                                      FrameStep(conc.frames[Frame(r)], conc.scripts[r])]
    /\ UNCHANGED <<fnVars, entry, companies_arg, companies, pc, fetch_log, news_results,
                   all_news, keyword_filtered_news, deduped_news, classified_news,
                   final_results, sum_index, stages_run, classifier_requests,
                   summarizer_requests, pipeline_result, response, started, classify_log,
                   summary_log, script, clock, first, batch>>

SpecConcurrent == InitConcurrent /\ [][ConcurrentStep]_vars

\* C23: two calls of process_news_pipeline in progress at the same time on the
\* singleton services, interleaved at any of their awaits (source, classifier
\* and summarizer requests), do not interfere: each call returns the
\* statistics and the results it returns when it runs alone on the same
\* answers, and no item of one call is among the results of the other.
C23_ConcurrentRunsIsolated ==
    \A r \in Runs :
        conc.frames # <<>> /\ conc.frames[r].pc = "Done" =>
            /\ conc.frames[r].result = RunAlone(InitialFrame, conc.scripts[r]).result
            /\ \A k \in 1..Len(conc.frames[r].result.results) :
                  conc.frames[r].result.results[k].corp = COMPANY_NAMES[r]

\* the first call has returned its summarized item while the second one, which
\* collected an item too, waits for the classifier
C23_Witness ==
    /\ conc.frames # <<>>
    /\ conc.frames[1].pc = "Done"
    /\ Len(conc.frames[1].result.results) = 1
    /\ conc.frames[1].result.results[1].summary = ModelSummary
    /\ conc.frames[2].pc = "Classifying"
    /\ conc.frames[2].all_news # <<>>

-----------------------------------------------------------------------------
(* The requests a run sends *)

-----------------------------------------------------------------------------
(* classify_news: answers whose processing fails part-way *)

\* C25: the output of classify_news is never a mix of classified and
\* fallback-annotated items: when the processing of an answer of status 200
\* fails part-way (on a malformed entry, after items were accepted), the
\* output is the fallback for the whole input, each input item once and in
\* input order, no accepted item duplicated or lost.
C25_FallbackIsWholeBatch ==
    Classified =>
        LET WholeBatch ==
                /\ Len(fout) = Len(fin.news_list)
                /\ \A k \in 1..Len(fout) :
                      fout[k] = [classification |-> [label |-> "important", confidence |-> 70]]
                                    @@ fin.news_list[k]
        IN /\ (\E k \in 1..Len(fout) : fout[k].classification.confidence = 70) => WholeBatch
           /\ (fin.resp.kind = "ok" /\ \E i \in Covered : ~ fin.resp.result[i].wellformed)
                  => WholeBatch

\* three items; the first entry is accepted, the second one is malformed
C25_Witness ==
    /\ Classified
    /\ fin.resp.kind = "ok"
    /\ Len(fin.news_list) = 3
    /\ Len(fin.resp.result) = 2
    /\ fin.resp.result[1].wellformed /\ fin.resp.result[1].confidence = 60
    /\ ~ fin.resp.result[2].wellformed
    /\ Len(fout) = 3
    /\ fout[1].classification.confidence = 70

-----------------------------------------------------------------------------
(* remove_similar_titles: what its output is made of *)

C27_DedupIdempotent ==
    fop = "remove_similar_titles" => remove_similar_titles(fout) = fout

\* an input of three items of which the call removed one and kept two
C27_Witness ==
    /\ fop = "remove_similar_titles"
    /\ Len(fin) = 3
    /\ Len(fout) = 2
    /\ \E i \in 2..3 : ~ Blank(fin[i]) /\ \E j \in 1..(i - 1) : Similar(fin[i], fin[j])

-----------------------------------------------------------------------------
(* IssueController.process_news_pipeline with its save, called directly or  *)
(* from the batch endpoints collect_issue_with_cqrs and collect_issues_for_n8n *)

\* the answers of the adapters to a run on the given companies (one or two)
ScriptsFor(names) ==
    IF Len(names) = 1 THEN Scripts
    ELSE {[s EXCEPT !.companies.names = names,
                    !.fetch = s.fetch \o t.fetch,
                    !.summarize = s.summarize \o t.summarize] : s, t \in Scripts}

\* the controller answering with an error when the save failed
ControllerHandleSaveOrFail(resp, db_session, db_ok) ==
    LET with_summary == SelectSeq(resp.results, LAMBDA result : Get(result, "summary", <<>>) # <<>>)
        attempted == db_session /\ resp.results # <<>> /\ with_summary # <<>>
    IN [response |-> IF attempted /\ ~ db_ok THEN ServiceErrorResponse ELSE resp,
        save_attempted |-> attempted,
        stored |-> IF attempted /\ db_ok THEN with_summary ELSE <<>>]

\* IssueController.process_news_pipeline after the answer of the service: the
\* results with a summary are converted to IssueItemCreate and handed to
\* bulk_create when there is a database service and the result list is not
\* empty; an exception of the save is logged; the response of the service is
\* returned
ControllerHandle(resp, db_session, db_ok) ==
    LET with_summary == SelectSeq(resp.results, LAMBDA result : Get(result, "summary", <<>>) # <<>>)
        issue_creates ==
            [k \in 1..Len(with_summary) |->
                [corp |-> Get(with_summary[k], "corp", <<>>),
                 summary |-> Get(with_summary[k], "summary", <<>>),
                 original_title |-> Get(with_summary[k], "original_title", <<>>),
                 confidence |-> Get(with_summary[k], "confidence", 0),
                 matched_keywords |-> Get(with_summary[k], "matched_keywords", <<>>),
                 news_url |-> Get(with_summary[k], "news_url", <<>>),
                 published_date |-> Get(with_summary[k], "published_date", <<>>),
                 category |-> Get(with_summary[k], "category", "general"),
                 sentiment |-> Get(with_summary[k], "sentiment", "neutral")]]
        attempted == db_session /\ resp.results # <<>> /\ issue_creates # <<>>
    IN [response |-> resp,
        save_attempted |-> attempted,
        stored |-> IF attempted /\ db_ok THEN issue_creates ELSE <<>>]

\* the loop of the endpoints over pipeline_result.results, which reads
\* issue.corp, issue.summary, ... : the results of an IssueResponse are dicts,
\* which have no such attributes, so every iteration raises AttributeError
ProjectionData(results) ==
    [items |-> <<>>, raised |-> results # <<>>, skipped |-> Len(results)]

InitBatch ==
    /\ NoRun
    /\ fop = "none"
    /\ fin = <<>>
    /\ fin_after = <<>>
    /\ fout = <<>>

\* A caller constructs the controller, with or without a database session,
\* and calls it; or an endpoint is called and opens its batch job: the post
\* of start_job of collect_issue_with_cqrs is inside its try, the call of
\* start_batch_job of collect_issues_for_n8n is before its try.
BatchBegin ==
    /\ batch.pc = "Idle"
    /\ \E ep \in {"controller", "cqrs", "n8n"}, db \in BOOLEAN, opened \in BOOLEAN :
          /\ ep # "controller" => db
          /\ ep = "controller" => opened
          /\ batch' = [batch EXCEPT
                 !.endpoint = ep,
                 !.db_session = db,
                 !.starts = IF ep # "controller" /\ opened THEN 1 ELSE 0,
                 !.pc = IF opened THEN "Started" ELSE "Returned",
                 !.reply = IF opened THEN "none"
                           ELSE IF ep = "cqrs" THEN "error" ELSE "raised"]
    /\ UNCHANGED <<fnVars, entry, companies_arg, companies, pc, fetch_log, news_results,
                   all_news, keyword_filtered_news, deduped_news, classified_news,
                   final_results, sum_index, stages_run, classifier_requests,
                   summarizer_requests, pipeline_result, response, started, classify_log,
                   summary_log, script, clock, first, conc>>

\* the controller is called (by the endpoints with None), runs the pipeline
\* through the service and saves
BatchPipeline ==
    /\ batch.pc = "Started"
    /\ \E arg \in CompanyArgs, db_ok \in BOOLEAN :
          /\ batch.endpoint # "controller" => arg = NoCompanies
          /\ \E s \in ScriptsFor(ControllerCompanies(arg).names) :
                LET h == ControllerHandle(
                             ServiceResponse(RunAlone(InitialFrame, s).result),
                             batch.db_session, db_ok)
                IN batch' = [batch EXCEPT
                       !.service_response =
                           ServiceResponse(RunAlone(InitialFrame, s).result),
                       !.response = h.response,
                       !.save_attempted = h.save_attempted,
                       !.save_ok = h.save_attempted /\ db_ok,
                       !.stored = h.stored,
                       !.pc = IF batch.endpoint = "controller" THEN "Returned"
                              ELSE "Collected",
                       !.reply = IF batch.endpoint = "controller" THEN "response"
                                 ELSE "none"]
    /\ UNCHANGED <<fnVars, entry, companies_arg, companies, pc, fetch_log, news_results,
                   all_news, keyword_filtered_news, deduped_news, classified_news,
                   final_results, sum_index, stages_run, classifier_requests,
                   summarizer_requests, pipeline_result, response, started, classify_log,
                   summary_log, script, clock, first, conc>>

\* The endpoint goes through the results and hands them on.
\* collect_issue_with_cqrs takes local_updated from the length of the results,
\* skips every item whose conversion raises and posts the projection; a
\* failure of the post goes to its handler, which returns an error.
\* collect_issues_for_n8n has no handler inside its loop: an exception of the
\* loop or of bulk_upsert_weekly_data goes to its handler, which calls
\* finish_batch_job and raises HTTPException.
BatchProject ==
    /\ batch.pc = "Collected"
    /\ \E ok \in BOOLEAN :
          LET p == ProjectionData(batch.response.results)
          IN IF batch.endpoint = "cqrs"
             THEN batch' = [batch EXCEPT
                      !.local_updated = Len(batch.response.results),
                      !.projection_data = p.items,
                      !.projections = @ + 1,
                      !.pc = IF ok THEN "Projected" ELSE "Returned",
                      !.reply = IF ok THEN "none" ELSE "error"]
             ELSE IF p.raised \/ ~ ok
             THEN batch' = [batch EXCEPT
                      !.finishes = @ + 1,
                      !.pc = "Returned",
                      !.reply = "http_500"]
             ELSE batch' = [batch EXCEPT !.pc = "Projected"]
    /\ UNCHANGED <<fnVars, entry, companies_arg, companies, pc, fetch_log, news_results,
                   all_news, keyword_filtered_news, deduped_news, classified_news,
                   final_results, sum_index, stages_run, classifier_requests,
                   summarizer_requests, pipeline_result, response, started, classify_log,
                   summary_log, script, clock, first, conc>>

\* The endpoint closes its batch job and returns. When the finish call of
\* collect_issue_with_cqrs raises, its handler returns an error; when the one
\* of collect_issues_for_n8n raises, its handler calls finish_batch_job again.
BatchFinish ==
    /\ batch.pc = "Projected"
    /\ \E ok \in BOOLEAN :
          batch' = [batch EXCEPT
              !.finishes = IF ok \/ batch.endpoint = "cqrs" THEN @ + 1 ELSE @ + 2,
              !.pc = "Returned",
              !.reply = IF ok THEN "success"
                        ELSE IF batch.endpoint = "cqrs" THEN "error" ELSE "http_500"]
    /\ UNCHANGED <<fnVars, entry, companies_arg, companies, pc, fetch_log, news_results,
                   all_news, keyword_filtered_news, deduped_news, classified_news,
                   final_results, sum_index, stages_run, classifier_requests,
                   summarizer_requests, pipeline_result, response, started, classify_log,
                   summary_log, script, clock, first, conc>>

NextBatch ==
    \/ BatchBegin
    \/ BatchPipeline
    \/ BatchProject
    \/ BatchFinish

SpecBatch == InitBatch /\ [][NextBatch]_vars

\* C28: in IssueController.process_news_pipeline persistence never changes the
\* answer: a save is attempted only when a database session exists and the
\* result list is not empty, only results with a non-empty summary are
\* stored, and whether the save succeeds or raises, the response returned to
\* the caller is exactly the response of the pipeline (same status, counts
\* and results).
C28_PersistenceKeepsAnswer ==
    batch.response # NoResponse =>
        /\ batch.response = batch.service_response
        /\ batch.save_attempted => (batch.db_session /\ batch.response.results # <<>>)
        /\ \A k \in 1..Len(batch.stored) :
              /\ batch.stored[k].summary # <<>>
              /\ \E i \in 1..Len(batch.response.results) :
                    /\ batch.response.results[i].summary = batch.stored[k].summary
                    /\ batch.response.results[i].news_url = batch.stored[k].news_url
        /\ batch.stored # <<>> => batch.save_ok
        /\ batch.save_ok => Len(batch.stored) = Len(batch.response.results)

\* the controller was called with a session, the save of its two results
\* raised, and the response with the two results was returned
C28_Witness ==
    /\ batch.endpoint = "controller"
    /\ batch.pc = "Returned"
    /\ batch.save_attempted
    /\ ~ batch.save_ok
    /\ batch.stored = <<>>
    /\ Len(batch.response.results) = 2
    /\ batch.response.final_summaries = 2

\* C29: in the batch endpoints collect_issue_with_cqrs and
\* collect_issues_for_n8n every batch job that was opened with a start call
\* is closed by exactly one finish call when the endpoint has returned, on the
\* success path and on every failure path after the start.
C29_JobsClosedOnce ==
    (batch.endpoint \in {"cqrs", "n8n"} /\ batch.pc = "Returned") =>
        batch.finishes = batch.starts

\* C30: in collect_issue_with_cqrs the projection to the weekly_data service
\* is sent only after the local save of the same results has completed
\* successfully: no projection request is issued for a run whose local save
\* failed or was not performed, and the reported local updated count equals
\* the number of results saved locally.
C30_ProjectionAfterSave ==
    batch.endpoint = "cqrs" =>
        /\ batch.projections > 0 => batch.save_ok
        /\ batch.reply = "success" => batch.local_updated = Len(batch.stored)

====
